---- MODULE Spec2Model ----
(***************************************************************************)
(* Localbase: local tables over IndexedDB, the change log (_changes), and  *)
(* the SyncEngine (push, pull, full, pushAll) talking to a remote backend. *)
(*                                                                         *)
(* Granularity: JavaScript runs every continuation to its next await, so   *)
(* one action is the code between two awaits.  An IndexedDB transaction is *)
(* queued when db.transaction() is called and runs after the transactions  *)
(* on the same store that were created before it.                          *)
(***************************************************************************)
EXTENDS Integers, Sequences, FiniteSets, TLC

\* ---------------------------------------------------------------- bounds
MaxChanges == 3      \* change records ever created in one behaviour
MaxPull    == 1      \* records returned by one remote select
MaxPending == 1      \* _changes writes queued and not yet executed
MaxScan    == 3      \* records of a table scan whose ids are arbitrary
MaxClock   == 2      \* values of Date.now()
MaxThrown  == 2      \* table calls that fail in one behaviour
MaxOpens   == 3      \* calls of Database.open()
MaxSubs    == 2      \* subscriptions made on a LiveQuery
MaxRefresh == 2      \* refreshes of a LiveQuery in flight together
MaxRecords == 3      \* records of the store that a Query reads
MaxValue   == 2      \* values of a field of those records, and of a clause

\* ---------------------------------------------------------- constants
ConflictThreshold == 1000   \* ms: Math.abs(localTimestamp - remoteTimestamp) > 1000
\* for (let v = this.version + 1; v <= this.version + 10; v++)
VersionTries == 10
\* this.version = 999
LastVersion == 999

\* ------------------------------------------------------- configuration
Tables       == {"users", "todos"}        \* schema of the database
ConfigTables == <<"users", "todos">>      \* Object.entries(config.tables)
\* the configurations of SpecSync: no table mapped, or both
Configs      == {<<>>, ConfigTables}
Keys         == {1, 2}                    \* primary keys (keyPath "id")
\* the keys the application uses in each table
KeysIn(t)    == IF t = "users" THEN {1, 2} ELSE {1}
NoKey        == 0                         \* `undefined`: item carries no id
Absent       == -1                        \* `undefined`: no record under the key
RemoteVal    == 0                         \* content of a record sent by the backend

VARIABLES
  store,        \* store[t] : the object store of table t, key -> content
  changes,      \* the _changes object store, in key order
  changeQueue,  \* Database.changeQueue (in memory)
  pendingLog,   \* _changes writes issued by trackChange, not yet executed
  upd,          \* Table.update between its get and its put: <<>> or <<[table, key]>>
  tables,       \* SyncEngine.config.tables, as Object.entries lists it
  isSyncing,    \* SyncEngine.isSyncing
  op,           \* guarded body being executed: none / push / pull / pushAll
  pc,           \* its position
  owner,        \* who called it: none / direct / full
  todo,         \* tables still to be processed by the running body
  batch,        \* push: pendingChanges as read; kept until the next sync call
  remoteData,   \* pull: records of the current table still to be applied
  resolved,     \* pull: <<>> or <<record to put>>
  scan,         \* pushAll: allRecords of the current table
  markIds,      \* pushAll: ids of the pending changes read for the current table
  calls,        \* remote calls of the running (or last) sync call, in order
  fullpc,       \* SyncEngine.full: idle / pulling / between / pushing
  running,      \* number of guarded bodies entered and not yet left
  refused,      \* a sync call was turned away by the guard while this body runs
  nMut,         \* number of table mutation calls that returned successfully
  lastPush,     \* none / ok / error: last completed push since the last log append
  pushAfter,    \* lastPush as seen when the running (or last) push started
  meta,         \* the _metadata object store: table -> SyncMetadata
  clock,        \* Date.now()
  cr,           \* the call of ConflictResolver being made: arguments and results
  thrown,       \* the errors that calls on the tables have thrown, in order
  abs,          \* the key-to-record map that the calls on each table amount to
  txn,          \* the call of Database.transaction being made
  trk,          \* the _changes store as a ChangeTracker finds it, and what its call answered
  auto,         \* the interval of startAutoSync and what its last tick did
  live,         \* a LiveQuery, its Observable and its subscriptions
  qry,          \* a Query, and what its terminal call returned
  odb,          \* Database.db and Database.openingPromise, and the open() calls made
  rem,          \* the backend's tables: when each record was modified and returned
  lastPushAll   \* none / running / ok / error: the same for pushAll

vars == <<store, changes, changeQueue, pendingLog, upd, isSyncing, op, pc, owner,
          todo, batch, remoteData, resolved, scan, markIds, calls,
          fullpc, running, refused, tables, nMut, lastPush, pushAfter, meta, clock, cr,
          thrown, abs, txn, trk, auto, live, qry, odb, rem, lastPushAll>>

\* the state of the components that the tables and the engine never write
sideVars == <<txn, trk, auto, live, qry, odb, rem>>

\* no call of Database.transaction is being made
NoTransaction == [stage |-> "none"]

\* the ChangeTracker has not been called, and the store _changes is there
NoTracker == [stage |-> "none", hasStore |-> TRUE]

\* no interval is set
NoAutoSync == [stage |-> "none"]

\* no LiveQuery has been made
NoLiveQuery == [stage |-> "none"]

\* no Query has been made
NoQuery == [stage |-> "none"]

\* open() has resolved and no call of it is in flight: Database.db is the
\* opened IDBDatabase, Database.openingPromise is null
Opened == [db |-> "open", openingPromise |-> FALSE]

\* the backend's tables are not looked at
NoRemote == [stage |-> "none"]

InitSide ==
  /\ txn = NoTransaction
  /\ trk = NoTracker
  /\ auto = NoAutoSync
  /\ live = NoLiveQuery
  /\ qry = NoQuery
  /\ odb = Opened
  /\ rem = NoRemote

tableVars == <<store, upd>>
logVars   == <<changes, changeQueue, pendingLog>>
syncVars  == <<isSyncing, op, pc, owner, todo, batch, remoteData, resolved, scan,
               markIds, calls, fullpc, running, refused, tables>>

\* ------------------------------------------------------------- helpers
\* Table.getKeyFromItem: item[keyPath]
getKeyFromItem(item) == item.id

\* Everything the _changes store will contain once the queued writes ran:
\* what a transaction created now observes.
LogView == changes \o pendingLog

\* a table without a row in _metadata: getSyncMetadata returns null, and
\* metadata?.lastSyncTimestamp is undefined
NoMetadata == [syncStatus |-> "none", lastSyncTimestamp |-> Absent]

\* no call of ConflictResolver is being made
NoCall == [stage |-> "none"]

\* the engine and the tables; _metadata and the clock apart
InitEngine(cfg) ==
  /\ tables = cfg
  /\ refused = FALSE
  /\ store = [t \in Tables |-> [k \in Keys |-> Absent]]
  /\ changes = <<>>
  /\ changeQueue = <<>>
  /\ pendingLog = <<>>
  /\ upd = <<>>
  /\ isSyncing = FALSE
  /\ op = "none"
  /\ pc = "idle"
  /\ owner = "none"
  /\ todo = <<>>
  /\ batch = <<>>
  /\ remoteData = <<>>
  /\ resolved = <<>>
  /\ scan = <<>>
  /\ markIds = {}
  /\ calls = <<>>
  /\ fullpc = "idle"
  /\ running = 0
  /\ nMut = 0
  /\ lastPush = "none"
  /\ pushAfter = "none"
  /\ lastPushAll = "none"

\* a database created now, but for the components beside it
InitMain(cfg) ==
  /\ InitEngine(cfg)
  /\ meta = [t \in Tables |-> NoMetadata]
  /\ clock = 1
  /\ cr = NoCall
  /\ thrown = <<>>
  /\ abs = [t \in Tables |-> [k \in Keys |-> Absent]]

InitWith(cfg) ==
  /\ InitMain(cfg)
  /\ InitSide

\* the database is open, the engine constructed over both tables
Init == InitWith(ConfigTables)

\* the same over any of the configurations
InitSync == \E cfg \in Configs : InitWith(cfg)

\* A step that a task of the event loop makes (a request or a remote call
\* completes): it waits until the continuations that are ready have run, and
\* the continuation of a full() whose pull() returned at once is.
Task == fullpc # "between"

\* ------------------------------------------------------- change log
\* Database.trackChange builds the record: a fresh id, synced: false.  The id
\* is `${Date.now()}-${Math.random()}`; ids are modelled by creation order.
ChangeRecord_AlwaysUpdate(t, key, operation, data) ==
  [id |-> Len(changeQueue) + 1, table |-> t, key |-> key,
   operation |-> "update", data |-> data, synced |-> FALSE]

ChangeRecord_BornSynced(t, key, operation, data) ==
  [id |-> Len(changeQueue) + 1, table |-> t, key |-> key,
   operation |-> operation, data |-> data, synced |-> TRUE]

ChangeRecord(t, key, operation, data) ==
  [id |-> Len(changeQueue) + 1, table |-> t, key |-> key,
   operation |-> operation, data |-> data, synced |-> FALSE]

\* Database.trackChange: push on changeQueue, then store.add(changeRecord) in
\* a transaction of its own on _changes, neither awaited nor checked.
trackChange(t, key, operation, data) ==
  LET changeRecord == ChangeRecord(t, key, operation, data) IN
  /\ changeQueue' = Append(changeQueue, changeRecord)
  /\ pendingLog' = Append(pendingLog, changeRecord)
  /\ changes' = changes
  /\ nMut' = nMut + 1
  /\ lastPush' = "none"
  /\ lastPushAll' = "none"

\* The queued store.add(changeRecord) executes.
LogWrite ==
  /\ Task
  /\ pendingLog # <<>>
  /\ changes' = Append(changes, Head(pendingLog))
  /\ pendingLog' = Tail(pendingLog)
  /\ UNCHANGED <<changeQueue, nMut, lastPush, pushAfter, lastPushAll, meta, clock, cr, thrown, abs, sideVars>>
  /\ UNCHANGED tableVars
  /\ UNCHANGED syncVars

\* ChangeTracker.getPendingChanges(table?) as seen by a transaction created now
Unsynced(log) == SelectSeq(log, LAMBDA c : ~c.synced)

getPendingChanges == Unsynced(LogView)

getPendingChangesOf(t) == SelectSeq(getPendingChanges, LAMBDA c : c.table = t)

\* the body of markAsSynced / markMultipleAsSynced for one record
SetSynced(c) == [c EXCEPT !.synced = TRUE]

markMultipleAsSynced_Nothing(log, changeIds) == log

\* ChangeTracker.markMultipleAsSynced(changeIds): get, set synced, put; an id
\* that is not in the store is skipped
markMultipleAsSynced(log, changeIds) ==
  [i \in DOMAIN log |-> IF log[i].id \in changeIds THEN SetSynced(log[i]) ELSE log[i]]

\* A transaction on _changes created now runs after the writes queued before
\* it; the model lets it run once the writes to the records it touches ran.
Written(changeIds) == \A i \in DOMAIN pendingLog : pendingLog[i].id \notin changeIds

\* ------------------------------------------- the tables, abstractly
\* What a call on a table amounts to on a map from keys to records: add stores
\* under a key that has no record and fails otherwise, update replaces the
\* record of a key that has one and fails otherwise, put stores, delete
\* removes.  A failed call leaves the map as it was.
absAdd(t, k, v) == IF abs[t][k] = Absent THEN [abs EXCEPT ![t][k] = v] ELSE abs

absUpdate(t, k, v) == IF abs[t][k] # Absent THEN [abs EXCEPT ![t][k] = v] ELSE abs

absPut(t, k, v) == [abs EXCEPT ![t][k] = v]

absDelete(t, k) == [abs EXCEPT ![t][k] = Absent]

\* ---------------------------------------------------------- Table
HasRoom == Len(changeQueue) < MaxChanges /\ Len(pendingLog) < MaxPending

\* the key generator of a "++id" store: a key that is not in the store
\* (the smallest one here)
GeneratedKeys(t) ==
  LET free == {k \in KeysIn(t) : store[t][k] = Absent} IN
  {k \in free : \A j \in free : k <= j}

\* the content of the record a mutation writes: every write is distinguishable
Fresh == Len(changeQueue) + 1

Write_KeepsDeleted(t, k, v) == IF v = Absent THEN store ELSE [store EXCEPT ![t][k] = v]

Write(t, k, v) == [store EXCEPT ![t][k] = v]

idbAdd_Overwrites(t, k) == "ok"

\* idbAdd(store, item): store.add(item); IndexedDB fails the request with a
\* ConstraintError when the key is in the store, and the promise rejects
idbAdd(t, k) == IF store[t][k] = Absent THEN "ok" ELSE "ConstraintError"

\* Table.add(item): idbAdd, then the change record 'create' with
\* data = {...item, [keyPath]: key}.  The key is the item's id or the one the
\* key generator made.
Add(t, k) ==
  /\ Task
  /\ HasRoom
  /\ idbAdd(t, k) = "ok"
  /\ store' = Write(t, k, Fresh)
  /\ trackChange(t, k, "create", <<[id |-> k, v |-> Fresh]>>)
  /\ abs' = absAdd(t, k, Fresh)
  /\ UNCHANGED <<upd, pushAfter, meta, clock, cr, thrown, sideVars>>
  /\ UNCHANGED syncVars

\* Table.put(item, key?) on a store with a keyPath: put(store, item), then the
\* change record 'update' with key = getKeyFromItem(item) and data = item.
\* `storeKey` is the key the store used: item.id, or a generated one when the
\* item has no id (IndexedDB writes it into the stored clone, not into item).
put(t, item, storeKey) ==
  /\ store' = Write(t, storeKey, item.v)
  /\ trackChange(t, getKeyFromItem(item), "update", <<item>>)

Put(t, k) ==
  /\ Task
  /\ HasRoom
  /\ put(t, [id |-> k, v |-> Fresh], k)
  /\ abs' = absPut(t, k, Fresh)
  /\ UNCHANGED <<upd, pushAfter, meta, clock, cr, thrown, sideVars>>
  /\ UNCHANGED syncVars

\* put of an item without id on a "++id" store
PutNoId(t) ==
  /\ Task
  /\ HasRoom
  /\ \E k \in GeneratedKeys(t) :
       /\ put(t, [id |-> NoKey, v |-> Fresh], k)
       /\ abs' = absPut(t, k, Fresh)
  /\ UNCHANGED <<upd, pushAfter, meta, clock, cr, thrown, sideVars>>
  /\ UNCHANGED syncVars

\* Table.update(key, changes), first half: await this.get(key)
UpdateGet(t, k) ==
  /\ Task
  /\ HasRoom
  /\ upd = <<>>
  /\ store[t][k] # Absent
  /\ upd' = <<[table |-> t, key |-> k]>>
  /\ UNCHANGED <<store, pushAfter, lastPushAll, meta, clock, cr, thrown, abs, sideVars>>
  /\ UNCHANGED logVars
  /\ UNCHANGED <<nMut, lastPush>>
  /\ UNCHANGED syncVars

\* Table.update, second half: this.put({...existing, ...changes})
UpdatePut ==
  /\ Task
  /\ upd # <<>>
  /\ HasRoom
  /\ put(upd[1].table, [id |-> upd[1].key, v |-> Fresh], upd[1].key)
  /\ upd' = <<>>
  /\ abs' = absUpdate(upd[1].table, upd[1].key, Fresh)
  /\ UNCHANGED <<pushAfter, meta, clock, cr, thrown, sideVars>>
  /\ UNCHANGED syncVars

\* Table.delete(key): deleteKey, then the change record 'delete' (no data)
Delete(t, k) ==
  /\ Task
  /\ HasRoom
  /\ store' = Write(t, k, Absent)
  /\ trackChange(t, k, "delete", <<>>)
  /\ abs' = absDelete(t, k)
  /\ UNCHANGED <<upd, pushAfter, meta, clock, cr, thrown, sideVars>>
  /\ UNCHANGED syncVars

\* a call on a table throws: nothing but the error comes out of it
throw(error) ==
  /\ Len(thrown) < MaxThrown
  /\ thrown' = Append(thrown, error)
  /\ UNCHANGED <<store, upd, nMut, lastPush, pushAfter, lastPushAll, meta, clock, cr, sideVars>>
  /\ UNCHANGED logVars
  /\ UNCHANGED syncVars

\* Table.add(item) with the key of a record of the table: `await idbAdd`
\* throws, the lines after it (the change tracker) are not reached
AddFails(t, k) ==
  /\ Task
  /\ idbAdd(t, k) # "ok"
  /\ throw(idbAdd(t, k))
  /\ abs' = absAdd(t, k, Fresh)

\* Table.update(key, changes) with no record under key:
\* if (!existing) throw new Error(`Item with key ${key} not found`)
UpdateFails(t, k) ==
  /\ Task
  /\ store[t][k] = Absent
  /\ throw("NotFound")
  /\ abs' = absUpdate(t, k, Fresh)

MutateFails ==
  \E t \in Tables : \E k \in KeysIn(t) : AddFails(t, k) \/ UpdateFails(t, k)

Mutate ==
  \E t \in Tables :
    \/ \E k \in KeysIn(t) : Add(t, k)
    \/ \E k \in KeysIn(t) : Put(t, k)
    \/ PutNoId(t)
    \/ \E k \in KeysIn(t) : UpdateGet(t, k)
    \/ \E k \in KeysIn(t) : Delete(t, k)

\* ------------------------------------------------------ SyncEngine
\* A remote call as the backend saw it.
Call(kind, t, records, keys, ok) ==
  [kind |-> kind, table |-> t, records |-> records, keys |-> keys, ok |-> ok]

\* for (const record of records) if (record.id != null) recordsMap.set(record.id, record):
\* a Map keeps the place of a key's first set and the value of its last set
MapSet_KeepFirst(m, record) ==
  IF \E i \in DOMAIN m : m[i].id = record.id THEN m ELSE Append(m, record)

MapSet(m, record) ==
  IF \E i \in DOMAIN m : m[i].id = record.id
    THEN [i \in DOMAIN m |-> IF m[i].id = record.id THEN record ELSE m[i]]
    ELSE Append(m, record)

RECURSIVE MapSetAll(_, _)
MapSetAll(m, records) ==
  IF records = <<>> THEN m
  ELSE MapSetAll(IF Head(records).id # NoKey THEN MapSet(m, Head(records)) ELSE m,
                 Tail(records))

RECURSIVE DataOf(_, _)
\* pushTableChanges, the switch: change.data of the entries of one operation
DataOf(cs, operation) ==
  IF cs = <<>> THEN <<>>
  ELSE (IF Head(cs).operation = operation THEN Head(cs).data ELSE <<>>)
         \o DataOf(Tail(cs), operation)

RECURSIVE KeysOf(_)
\* pushTableChanges, the switch: change.key of the delete entries
KeysOf(cs) ==
  IF cs = <<>> THEN <<>>
  ELSE (IF Head(cs).operation = "delete" THEN <<Head(cs).key>> ELSE <<>>)
         \o KeysOf(Tail(cs))

\* pushTableChanges: creates first, then updates, into one Map
recordsToPush(cs) == MapSetAll(MapSetAll(<<>>, DataOf(cs, "create")), DataOf(cs, "update"))

RECURSIVE TablesOf(_)
\* push: the keys of changesByTable, in the order the Map got them
TablesOf(cs) ==
  IF cs = <<>> THEN <<>>
  ELSE LET rest == TablesOf(SelectSeq(Tail(cs), LAMBDA c : c.table # Head(cs).table))
       IN <<Head(cs).table>> \o rest

BatchOf(t) == SelectSeq(batch, LAMBDA c : c.table = t)

IdsOf(cs) == {cs[i].id : i \in DOMAIN cs}

\* adapter.push is reached when there are creates or updates, and returns
\* without a remote call when it is given no record
NeedUpsert(cs) ==
  /\ DataOf(cs, "create") # <<>> \/ DataOf(cs, "update") # <<>>
  /\ recordsToPush(cs) # <<>>

NeedDelete(cs) == KeysOf(cs) # <<>>

StageOfTable_MarkAtOnce(cs) == "push_mark"

\* where pushTableChanges(t) suspends first / after its upsert
StageOfTable(cs) ==
  IF NeedUpsert(cs) THEN "push_upsert"
  ELSE IF NeedDelete(cs) THEN "push_delete" ELSE "push_mark"

StageAfterUpsert(cs) == IF NeedDelete(cs) THEN "push_delete" ELSE "push_mark"

GuardedReturn_Clears(flag) == FALSE

\* if (this.isSyncing) return;  -- before the try, so that finally does not run
GuardedReturn(flag) == flag

\* what a guarded body works on between its awaits
workVars == <<todo, batch, remoteData, resolved, scan, markIds, calls>>
bodyVars == <<isSyncing, op, owner, fullpc, running, refused, tables>>
restVars == <<changes, changeQueue, pendingLog, nMut>>

\* The common part of entering a guarded body: this.isSyncing = true
Enter(o, who) ==
  /\ ~isSyncing
  /\ isSyncing' = TRUE
  /\ op' = o
  /\ owner' = who
  /\ running' = running + 1
  /\ refused' = FALSE
  /\ tables' = tables

Finally_LeavesSet(flag) == flag

\* finally { this.isSyncing = false }
Finally(flag) == FALSE

\* finally { this.isSyncing = false }; the locals of the body are gone, and a
\* full() that awaited it resumes
Leave ==
  /\ isSyncing' = Finally(isSyncing)
  /\ running' = running - 1
  /\ refused' = FALSE
  /\ tables' = tables
  /\ op' = "none"
  /\ pc' = "idle"
  /\ owner' = "none"
  /\ todo' = <<>>
  /\ batch' = <<>>
  /\ remoteData' = <<>>
  /\ resolved' = <<>>
  /\ scan' = <<>>
  /\ markIds' = {}
  /\ calls' = <<>>
  /\ fullpc' = IF owner = "full" THEN "idle" ELSE fullpc

\* ---- push
\* push() up to its first await: the guard, getChangeTracker(),
\* getPendingChanges() (the transaction is created here)
pushEnter(who) ==
  /\ Enter("push", who)
  /\ pc' = "push_read"
  /\ batch' = getPendingChanges
  /\ pushAfter' = lastPush
  /\ UNCHANGED <<meta, clock, cr, thrown, abs, sideVars>>
  /\ lastPushAll' = lastPushAll
  /\ lastPush' = "running"
  /\ UNCHANGED <<todo, remoteData, resolved, scan, markIds, calls>>
  /\ UNCHANGED restVars
  /\ UNCHANGED tableVars

Push ==
  /\ pushEnter("direct")
  /\ UNCHANGED fullpc

\* push() ends, normally (res = "ok") or by the error pushTableChanges rethrows
pushLeave(res) ==
  /\ Leave
  /\ lastPush' = IF lastPush = "running" THEN res ELSE lastPush

\* after getPendingChanges: return when nothing is pending, else group by
\* table and enter pushTableChanges for the first table
PushGroup ==
  /\ Task
  /\ op = "push" /\ pc = "push_read"
  /\ IF batch = <<>>
       THEN pushLeave("ok")
       ELSE /\ todo' = TablesOf(batch)
            /\ pc' = StageOfTable(BatchOf(Head(TablesOf(batch))))
            /\ UNCHANGED <<batch, remoteData, resolved, scan, markIds, calls, lastPush>>
            /\ UNCHANGED bodyVars
  /\ UNCHANGED <<pushAfter, lastPushAll, meta, clock, cr, thrown, abs, sideVars>>
  /\ UNCHANGED restVars
  /\ UNCHANGED tableVars

\* await this.adapter.push(tableName, recordsToPush): one upsert
PushUpsert ==
  /\ Task
  /\ op = "push" /\ pc = "push_upsert"
  /\ LET t == Head(todo)
         cs == BatchOf(t)
     IN \E ok \in BOOLEAN :
          IF ok
            THEN /\ calls' = Append(calls, Call("upsert", t, recordsToPush(cs), <<>>, TRUE))
                 /\ pc' = StageAfterUpsert(cs)
                 /\ UNCHANGED <<todo, batch, remoteData, resolved, scan, markIds, lastPush>>
                 /\ UNCHANGED bodyVars
            ELSE pushLeave("error")
  /\ UNCHANGED <<pushAfter, lastPushAll, meta, clock, cr, thrown, abs, sideVars>>
  /\ UNCHANGED restVars
  /\ UNCHANGED tableVars

\* await this.adapter.delete(tableName, deletes): one delete
PushDelete ==
  /\ Task
  /\ op = "push" /\ pc = "push_delete"
  /\ LET t == Head(todo)
         cs == BatchOf(t)
     IN \E ok \in BOOLEAN :
          IF ok
            THEN /\ calls' = Append(calls, Call("delete", t, <<>>, KeysOf(cs), TRUE))
                 /\ pc' = "push_mark"
                 /\ UNCHANGED <<todo, batch, remoteData, resolved, scan, markIds, lastPush>>
                 /\ UNCHANGED bodyVars
            ELSE pushLeave("error")
  /\ UNCHANGED <<pushAfter, lastPushAll, meta, clock, cr, thrown, abs, sideVars>>
  /\ UNCHANGED restVars
  /\ UNCHANGED tableVars

\* await changeTracker.markMultipleAsSynced(changeIds), then the next table of
\* the loop in push(), or its end
PushMark ==
  /\ Task
  /\ op = "push" /\ pc = "push_mark"
  /\ LET cs == BatchOf(Head(todo)) IN
       /\ Written(IdsOf(cs))
       /\ changes' = markMultipleAsSynced(changes, IdsOf(cs))
  /\ IF Tail(todo) = <<>>
       THEN pushLeave("ok")
       ELSE /\ todo' = Tail(todo)
            /\ pc' = StageOfTable(BatchOf(Head(Tail(todo))))
            /\ UNCHANGED <<batch, remoteData, resolved, scan, markIds, calls, lastPush>>
            /\ UNCHANGED bodyVars
  /\ UNCHANGED <<pushAfter, lastPushAll, meta, clock, cr, thrown, abs, sideVars>>
  /\ UNCHANGED <<changeQueue, pendingLog, nMut>>
  /\ UNCHANGED tableVars

\* ---- pull
\* what adapter.pull can return for table t: at most MaxPull records, each
\* with its id
RemoteRecords(t) == {[id |-> k, v |-> RemoteVal] : k \in KeysIn(t)}

RemoteAnswers(t) ==
  {<<>>} \cup UNION {[1..n -> RemoteRecords(t)] : n \in 1..MaxPull}

\* pull() up to its first await (getSyncMetadata of the first table)
pullEnter(who) ==
  /\ Enter("pull", who)
  /\ pc' = "pull_fetch"
  /\ todo' = tables
  /\ UNCHANGED <<batch, remoteData, resolved, scan, markIds, calls>>
  /\ UNCHANGED <<lastPush, pushAfter, lastPushAll, meta, clock, cr, thrown, abs, sideVars>>
  /\ UNCHANGED restVars
  /\ UNCHANGED tableVars

\* pull() called while no sync is in flight.  Over no table the loop has no
\* await: the flag is set and cleared before pull() returns.
Pull ==
  /\ ~isSyncing
  /\ IF tables = <<>>
       THEN UNCHANGED vars
       ELSE pullEnter("direct") /\ UNCHANGED fullpc

\* pull() ends, and so does the turn of the event loop unless full() awaited
\* it: then full() resumes in the same turn and calls push(), which passes the
\* guard that pull() has just cleared and runs up to its getPendingChanges()
pullLeave ==
  IF owner = "full"
    THEN /\ isSyncing' = TRUE
         /\ op' = "push"
         /\ pc' = "push_read"
         /\ fullpc' = "pushing"
         /\ batch' = getPendingChanges
         /\ pushAfter' = lastPush
         /\ clock' = clock
         /\ UNCHANGED <<cr, thrown, abs, sideVars>>
         /\ lastPushAll' = lastPushAll
         /\ lastPush' = "running"
         /\ todo' = <<>>
         /\ remoteData' = <<>>
         /\ resolved' = <<>>
         /\ refused' = FALSE
         /\ UNCHANGED <<owner, running, tables, scan, markIds, calls>>
    ELSE /\ Leave
         /\ UNCHANGED <<lastPush, pushAfter, lastPushAll, clock, cr, thrown, abs, sideVars>>

\* the loop of pull() moves to the next configured table, or pull() ends
pullNextTable ==
  IF Tail(todo) = <<>>
    THEN pullLeave
    ELSE /\ todo' = Tail(todo)
         /\ pc' = "pull_fetch"
         /\ UNCHANGED <<batch, remoteData, resolved, scan, markIds, calls>>
         /\ UNCHANGED <<lastPush, pushAfter, lastPushAll, clock, cr, thrown, abs, sideVars>>
         /\ UNCHANGED bodyVars

\* x || 0
OrZero(x) == IF x = Absent \/ x = 0 THEN 0 ELSE x

ErrorMetadata_FreshStamp(previous) ==
  [syncStatus |-> "error", lastSyncTimestamp |-> clock]

\* the SyncMetadata the catch of pull() writes:
\* lastSyncTimestamp: (await getSyncMetadata(idb, localTable))?.lastSyncTimestamp || 0
ErrorMetadata(previous) ==
  [syncStatus |-> "error", lastSyncTimestamp |-> OrZero(previous.lastSyncTimestamp)]

\* the SyncMetadata pull() writes after the records of a table were applied
IdleMetadata == [syncStatus |-> "idle", lastSyncTimestamp |-> clock]

\* setSyncMetadata(idb, metadata): put into _metadata under metadata.table
setSyncMetadata(t, metadata) == meta' = [meta EXCEPT ![t] = metadata]

\* time passes
Tick ==
  /\ clock < MaxClock
  /\ clock' = clock + 1
  /\ UNCHANGED <<cr, thrown, abs, sideVars>>
  /\ UNCHANGED <<meta, lastPush, pushAfter, lastPushAll>>
  /\ UNCHANGED restVars
  /\ UNCHANGED tableVars
  /\ UNCHANGED syncVars

\* await this.adapter.pull(localTable, lastSyncTimestamp).  A failure is caught
\* in the loop, the catch writes the SyncMetadata with syncStatus "error", and
\* the loop goes on.  An empty answer goes straight to setSyncMetadata.
PullFetch ==
  /\ Task
  /\ op = "pull" /\ pc = "pull_fetch"
  /\ LET t == Head(todo) IN
     \/ /\ setSyncMetadata(t, ErrorMetadata(meta[t]))
        /\ pullNextTable
     \/ \E answer \in RemoteAnswers(t) :
          /\ Len(changeQueue) + Len(answer) <= MaxChanges
          /\ remoteData' = answer
          /\ pc' = IF answer = <<>> THEN "pull_meta" ELSE "pull_get"
          /\ UNCHANGED <<todo, batch, resolved, scan, markIds, calls>>
          /\ UNCHANGED <<lastPush, pushAfter, lastPushAll, meta, clock, cr, thrown, abs, sideVars>>
          /\ UNCHANGED bodyVars
  /\ UNCHANGED restVars
  /\ UNCHANGED tableVars

\* const local = await table.get(record.id), then detectConflict and resolve:
\* without a local record the remote record is put; with one, the timestamps
\* and the strategy (not modelled) pick the local or the remote record
PullGet ==
  /\ Task
  /\ op = "pull" /\ pc = "pull_get"
  /\ LET t == Head(todo)
         record == Head(remoteData)
         local == store[t][record.id]
     IN \E keep \in {record} \cup
                    (IF local = Absent THEN {} ELSE {[id |-> record.id, v |-> local]}) :
          resolved' = <<keep>>
  /\ pc' = "pull_put"
  /\ UNCHANGED <<todo, batch, remoteData, scan, markIds, calls>>
  /\ UNCHANGED bodyVars
  /\ UNCHANGED <<lastPush, pushAfter, lastPushAll, meta, clock, cr, thrown, abs, sideVars>>
  /\ UNCHANGED restVars
  /\ UNCHANGED tableVars

\* await table.put(resolved) / table.put(record): Table.put, the method the
\* application calls, change tracker included
PullPut ==
  /\ Task
  /\ op = "pull" /\ pc = "pull_put"
  /\ HasRoom
  /\ put(Head(todo), resolved[1], resolved[1].id)
  /\ abs' = absPut(Head(todo), resolved[1].id, resolved[1].v)
  /\ resolved' = <<>>
  /\ remoteData' = Tail(remoteData)
  /\ pc' = IF Tail(remoteData) = <<>> THEN "pull_meta" ELSE "pull_get"
  /\ UNCHANGED <<todo, batch, scan, markIds, calls>>
  /\ UNCHANGED bodyVars
  /\ UNCHANGED <<upd, pushAfter, meta, clock, cr, thrown, sideVars>>

\* await setSyncMetadata(idb, {..., syncStatus: "idle"}), then the next table
PullMeta ==
  /\ Task
  /\ op = "pull" /\ pc = "pull_meta"
  /\ setSyncMetadata(Head(todo), IdleMetadata)
  /\ pullNextTable
  /\ UNCHANGED restVars
  /\ UNCHANGED tableVars

\* ---- pushAll
RECURSIVE getAllFrom(_, _)
\* Table.getAll(): the records of the store, in key order
getAllFrom(t, k) ==
  IF k \notin Keys THEN <<>>
  ELSE (IF store[t][k] = Absent THEN <<>> ELSE <<[id |-> k, v |-> store[t][k]]>>)
         \o getAllFrom(t, k + 1)

getAll(t) == getAllFrom(t, 1)

\* pushAll() ends: normally (res = "ok") or by the error its catch rethrows
pushAllLeave(res) ==
  /\ Leave
  /\ lastPushAll' = IF lastPushAll = "running" THEN res ELSE lastPushAll

\* pushAll() called while no sync is in flight, up to its first await (getAll
\* of the first table); over no table it returns at once
PushAll ==
  /\ ~isSyncing
  /\ IF tables = <<>>
       THEN /\ lastPushAll' = "ok"
            /\ UNCHANGED <<lastPush, pushAfter, meta, clock, cr, thrown, abs, sideVars>>
            /\ UNCHANGED syncVars
       ELSE /\ Enter("pushAll", "direct")
            /\ pc' = "pushall_upsert"
            /\ todo' = tables
            /\ scan' = getAll(Head(tables))
            /\ lastPushAll' = "running"
            /\ UNCHANGED <<batch, remoteData, resolved, markIds, calls, fullpc>>
            /\ UNCHANGED <<lastPush, pushAfter, meta, clock, cr, thrown, abs, sideVars>>
  /\ UNCHANGED restVars
  /\ UNCHANGED tableVars

\* the loop of pushAll() moves to the next configured table (its getAll is
\* issued), or pushAll() ends
pushAllNextTable ==
  IF Tail(todo) = <<>>
    THEN pushAllLeave("ok")
    ELSE /\ todo' = Tail(todo)
         /\ scan' = getAll(Head(Tail(todo)))
         /\ markIds' = {}
         /\ pc' = "pushall_upsert"
         /\ UNCHANGED <<batch, remoteData, resolved, calls, lastPushAll>>
         /\ UNCHANGED bodyVars

pushAllCatch_Swallows == pushAllNextTable

\* catch (error) { console.error(...); throw error; } inside the loop: the
\* loop is left, finally clears the flag, pushAll() rejects
pushAllCatch == pushAllLeave("error")

\* allRecords is there: nothing to do for an empty table; else dedupe by id and
\* await this.adapter.push(localTable, uniqueRecords), whose failure is
\* rethrown; after it getPendingChanges(localTable) is called
PushAllUpsert ==
  /\ Task
  /\ op = "pushAll" /\ pc = "pushall_upsert"
  /\ LET t == Head(todo) IN
       IF scan = <<>>
         THEN pushAllNextTable
         ELSE \E ok \in BOOLEAN :
                IF ok
                  THEN /\ calls' = Append(calls, Call("upsert", t, MapSetAll(<<>>, scan), <<>>, TRUE))
                       /\ markIds' = IdsOf(getPendingChangesOf(t))
                       /\ pc' = "pushall_mark"
                       /\ UNCHANGED <<todo, batch, remoteData, resolved, scan, lastPushAll>>
                       /\ UNCHANGED bodyVars
                  ELSE pushAllCatch
  /\ UNCHANGED <<lastPush, pushAfter, meta, clock, cr, thrown, abs, sideVars>>
  /\ UNCHANGED restVars
  /\ UNCHANGED tableVars

\* the pending changes of the table are there: markMultipleAsSynced when there
\* are any, then the next table
PushAllMark ==
  /\ Task
  /\ op = "pushAll" /\ pc = "pushall_mark"
  /\ Written(markIds)
  /\ changes' = markMultipleAsSynced(changes, markIds)
  /\ pushAllNextTable
  /\ UNCHANGED <<lastPush, pushAfter, meta, clock, cr, thrown, abs, sideVars>>
  /\ UNCHANGED <<changeQueue, pendingLog, nMut>>
  /\ UNCHANGED tableVars

\* ---- calls that the guard turns away
\* if (this.isSyncing) return: nothing but the return happens
turnedAway ==
  /\ isSyncing
  /\ isSyncing' = GuardedReturn(isSyncing)
  /\ refused' = TRUE
  /\ UNCHANGED <<op, pc, owner, running, tables, lastPush, pushAfter, lastPushAll, meta, clock, cr, thrown, abs, sideVars>>
  /\ UNCHANGED workVars
  /\ UNCHANGED restVars
  /\ UNCHANGED tableVars

\* push(), pull() or pushAll() called while isSyncing
SyncWhileSyncing ==
  /\ turnedAway
  /\ UNCHANGED fullpc

\* ---- full
\* full(): await this.pull().  Called while isSyncing, the guard turns its
\* pull() away, and its push() in the continuation that follows at once.
\* Over no table pull() returns before full() suspends at its await.
Full ==
  /\ fullpc = "idle"
  /\ IF isSyncing
       THEN turnedAway /\ UNCHANGED fullpc
       ELSE IF tables = <<>>
              THEN /\ fullpc' = "between"
                   /\ UNCHANGED <<isSyncing, op, pc, owner, running, refused, tables,
                                  lastPush, pushAfter, lastPushAll, meta, clock, cr, thrown, abs, sideVars>>
                   /\ UNCHANGED workVars
                   /\ UNCHANGED restVars
                   /\ UNCHANGED tableVars
              ELSE pullEnter("full") /\ fullpc' = "pulling"

\* full(): await this.push(), the continuation of a full() whose pull()
\* returned before it suspended
FullPush ==
  /\ fullpc = "between"
  /\ IF isSyncing
       THEN turnedAway /\ fullpc' = "idle"
       ELSE pushEnter("full") /\ fullpc' = "pushing"

\* the application puts and deletes record 1 of "users" (the workload of
\* SpecSync; "todos" gets its records from pull)
MutateOne == Put("users", 1) \/ Delete("users", 1)

\* the application puts and deletes record 1 of either table
MutateBoth == \E t \in Tables : Put(t, 1) \/ Delete(t, 1)

\* the tables and the change log alone
NextTable == Mutate \/ UpdatePut \/ LogWrite

\* the application and push / pushAll
NextPush ==
  \/ Mutate \/ UpdatePut \/ LogWrite
  \/ Push \/ PushGroup \/ PushUpsert \/ PushDelete \/ PushMark
  \/ PushAll \/ PushAllUpsert \/ PushAllMark

\* the application and pull
NextPull ==
  \/ Mutate \/ UpdatePut \/ LogWrite
  \/ Pull \/ PullFetch \/ PullGet \/ PullPut \/ PullMeta

\* every entry point of the SyncEngine, over a small workload
NextSync ==
  \/ MutateOne \/ LogWrite
  \/ Push \/ PushGroup \/ PushUpsert \/ PushDelete \/ PushMark
  \/ Pull \/ PullFetch \/ PullGet \/ PullPut \/ PullMeta
  \/ PushAll \/ PushAllUpsert \/ PushAllMark
  \/ Full \/ FullPush \/ SyncWhileSyncing

Next ==
  \/ Mutate \/ UpdatePut \/ LogWrite
  \/ Push \/ PushGroup \/ PushUpsert \/ PushDelete \/ PushMark
  \/ Pull \/ PullFetch \/ PullGet \/ PullPut \/ PullMeta
  \/ PushAll \/ PushAllUpsert \/ PushAllMark
  \/ Full \/ FullPush \/ SyncWhileSyncing

Spec == InitSync /\ [][Next]_vars

SpecTable == Init /\ [][NextTable]_vars

\* the tables and the change log, failing calls included
NextTableErr == Mutate \/ UpdatePut \/ LogWrite \/ MutateFails

SpecTableErr == Init /\ [][NextTableErr]_vars

\* add, update and delete called one after another: a call is made when the
\* call before it has returned or thrown
SeqCall ==
  /\ upd = <<>>
  /\ \E t \in Tables : \E k \in KeysIn(t) :
       Add(t, k) \/ UpdateGet(t, k) \/ Delete(t, k) \/ AddFails(t, k) \/ UpdateFails(t, k)

NextSeq == SeqCall \/ UpdatePut \/ LogWrite

SpecSeq == Init /\ [][NextSeq]_vars

SpecPush  == Init /\ [][NextPush]_vars
SpecPull  == Init /\ [][NextPull]_vars
SpecSync  == InitSync /\ [][NextSync]_vars

\* ---- pushAll over a table whose keyPath is not "id"
\* The records of such a table carry any `id`, or none, and several records
\* may carry the same one: what getAll() can return for it
ScanRecords == {[id |-> k, v |-> w] : k \in {NoKey} \cup Keys, w \in 1..2}

Scans == UNION {[1..n -> ScanRecords] : n \in 0..MaxScan}

\* pushAll() has been called and the getAll() of its first table has returned
InitScan ==
  /\ scan \in Scans
  /\ tables = ConfigTables
  /\ todo = ConfigTables
  /\ isSyncing = TRUE
  /\ op = "pushAll"
  /\ pc = "pushall_upsert"
  /\ owner = "direct"
  /\ running = 1
  /\ lastPushAll = "running"
  /\ refused = FALSE
  /\ store = [t \in Tables |-> [k \in Keys |-> Absent]]
  /\ changes = <<>>
  /\ changeQueue = <<>>
  /\ pendingLog = <<>>
  /\ upd = <<>>
  /\ batch = <<>>
  /\ remoteData = <<>>
  /\ resolved = <<>>
  /\ markIds = {}
  /\ calls = <<>>
  /\ fullpc = "idle"
  /\ nMut = 0
  /\ lastPush = "none"
  /\ pushAfter = "none"
  /\ meta = [t \in Tables |-> NoMetadata]
  /\ clock = 1
  /\ cr = NoCall
  /\ thrown = <<>>
  /\ abs = [t \in Tables |-> [k \in Keys |-> Absent]]
  /\ InitSide

NextScan == PushAllUpsert \/ PushAllMark

SpecScan == InitScan /\ [][NextScan]_vars

\* ---- pull over a database that earlier sessions have synced
\* what _metadata can hold for a table when the database is opened
PriorMetadata ==
  {NoMetadata, [syncStatus |-> "error", lastSyncTimestamp |-> 0]}
    \cup {[syncStatus |-> st, lastSyncTimestamp |-> 1] : st \in {"idle", "error"}}

InitMeta ==
  /\ InitEngine(ConfigTables)
  /\ meta \in [Tables -> PriorMetadata]
  /\ clock = 1
  /\ cr = NoCall
  /\ thrown = <<>>
  /\ abs = [t \in Tables |-> [k \in Keys |-> Absent]]
  /\ InitSide

NextMeta ==
  \/ Tick \/ LogWrite
  \/ Pull \/ PullFetch \/ PullGet \/ PullPut \/ PullMeta

SpecMeta == InitMeta /\ [][NextMeta]_vars

\* ---- pull against a backend whose records change
\* the other components beside the backend
sideOfRemote == <<txn, trk, auto, live, qry, odb>>

\* The backend holds the record of key 1 of each table: rem.at[t] is its
\* updated_at (0 while the backend has no such record), rem.got[t] the
\* updated_at of the version that a select of pull() last returned.
InitRemote ==
  /\ InitMain(ConfigTables)
  /\ txn = NoTransaction
  /\ trk = NoTracker
  /\ auto = NoAutoSync
  /\ live = NoLiveQuery
  /\ qry = NoQuery
  /\ odb = Opened
  /\ rem = [at |-> [t \in Tables |-> 0], got |-> [t \in Tables |-> 0]]

\* another client inserts or updates the record of table t: updated_at is now
RemoteModify(t) ==
  /\ rem.at[t] # clock
  /\ rem' = [rem EXCEPT !.at[t] = clock]
  /\ UNCHANGED sideOfRemote
  /\ UNCHANGED <<meta, clock, cr, thrown, abs, lastPush, pushAfter, lastPushAll>>
  /\ UNCHANGED restVars
  /\ UNCHANGED tableVars
  /\ UNCHANGED syncVars

\* SupabaseAdapter.pull(tableName, lastSyncTimestamp): select("*"), and
\* if (lastSyncTimestamp) .gte("updated_at", new Date(lastSyncTimestamp).toISOString())
adapterPull(t, lastSyncTimestamp) ==
  IF rem.at[t] = 0 THEN <<>>
  ELSE IF OrZero(lastSyncTimestamp) = 0 \/ rem.at[t] >= lastSyncTimestamp
    THEN <<[id |-> 1, v |-> RemoteVal]>>
    ELSE <<>>

\* await getSyncMetadata, await this.adapter.pull(localTable, lastSyncTimestamp):
\* the select fails (the catch of the loop writes syncStatus "error") or
\* answers with the records that its filter lets through
PullSelect ==
  /\ Task
  /\ op = "pull" /\ pc = "pull_fetch"
  /\ LET t == Head(todo)
         answer == adapterPull(t, meta[t].lastSyncTimestamp) IN
     \/ /\ setSyncMetadata(t, ErrorMetadata(meta[t]))
        /\ pullNextTable
     \/ /\ Len(changeQueue) + Len(answer) <= MaxChanges
        /\ remoteData' = answer
        /\ rem' = [rem EXCEPT !.got[t] = IF answer = <<>> THEN @ ELSE rem.at[t]]
        /\ pc' = IF answer = <<>> THEN "pull_meta" ELSE "pull_get"
        /\ UNCHANGED sideOfRemote
        /\ UNCHANGED <<todo, batch, resolved, scan, markIds, calls>>
        /\ UNCHANGED <<lastPush, pushAfter, lastPushAll, meta, clock, cr, thrown, abs>>
        /\ UNCHANGED bodyVars
  /\ UNCHANGED restVars
  /\ UNCHANGED tableVars

\* pull() called again and again while the backend's records change
NextRemote ==
  \/ Tick \/ LogWrite
  \/ \E t \in Tables : RemoteModify(t)
  \/ Pull \/ PullSelect \/ PullGet \/ PullPut \/ PullMeta

SpecRemote == InitRemote /\ [][NextRemote]_vars

\* ------------------------------------------------- ConflictResolver
\* An updated_at / created_at field holds a date string, <<ms>> for the
\* string of the instant ms, or nothing (<<>>: undefined, null, "").
NoStamp == <<>>

Instants == {1, 1001, 1002}

Stamps == {NoStamp} \cup {<<ms>> : ms \in Instants}

\* the records of one side that differ in their timestamps
StampedRecords(side) ==
  {[side |-> side, updated_at |-> u, created_at |-> c] : u, c \in Stamps}

\* new Date(field).getTime()
getTime(field) == field[1]

\* record?.updated_at ? getTime(updated_at)
\*   : record?.created_at ? getTime(created_at) : Date.now()
timestampOf(record, now) ==
  IF record.updated_at # NoStamp THEN getTime(record.updated_at)
  ELSE IF record.created_at # NoStamp THEN getTime(record.created_at)
  ELSE now

Abs(x) == IF x < 0 THEN 0 - x ELSE x

detectConflict_AtThreshold(local, remote, table, key, nowLocal, nowRemote) ==
  LET localTimestamp == timestampOf(local, nowLocal)
      remoteTimestamp == timestampOf(remote, nowRemote)
  IN IF Abs(localTimestamp - remoteTimestamp) >= ConflictThreshold
       THEN <<[local |-> local, remote |-> remote, table |-> table, key |-> key,
               localTimestamp |-> localTimestamp, remoteTimestamp |-> remoteTimestamp]>>
       ELSE <<>>

\* ConflictResolver.detectConflict(local, remote, table, key): <<conflict>>, or
\* <<>> for null.  nowLocal and nowRemote are what its two Date.now() return.
detectConflict(local, remote, table, key, nowLocal, nowRemote) ==
  LET localTimestamp == timestampOf(local, nowLocal)
      remoteTimestamp == timestampOf(remote, nowRemote)
  IN IF Abs(localTimestamp - remoteTimestamp) > ConflictThreshold
       THEN <<[local |-> local, remote |-> remote, table |-> table, key |-> key,
               localTimestamp |-> localTimestamp, remoteTimestamp |-> remoteTimestamp]>>
       ELSE <<>>

\* the strategies a caller passes: the three names, a function, and a string
\* that is none of the names
Strategies == {"last-write-wins", "local-wins", "remote-wins", "function", "newest"}

\* what the function of the application returns for a conflict
customResolver(conflict) == [side |-> "custom", of |-> <<conflict.local, conflict.remote>>]

lastWriteWins(conflict) ==
  IF conflict.remoteTimestamp > conflict.localTimestamp
    THEN conflict.remote ELSE conflict.local

resolve_DefaultLocal(conflict, strategy) ==
  IF strategy = "function" THEN customResolver(conflict)
  ELSE CASE strategy = "last-write-wins" -> lastWriteWins(conflict)
         [] strategy = "local-wins" -> conflict.local
         [] strategy = "remote-wins" -> conflict.remote
         [] OTHER -> conflict.local

\* ConflictResolver.resolve(conflict, strategy)
resolve(conflict, strategy) ==
  IF strategy = "function" THEN customResolver(conflict)
  ELSE CASE strategy = "last-write-wins" -> lastWriteWins(conflict)
         [] strategy = "local-wins" -> conflict.local
         [] strategy = "remote-wins" -> conflict.remote
         [] OTHER -> lastWriteWins(conflict)

\* pull() has read the local record of a remote record and is about to call
\* detectConflict; elapsed is the time between the two Date.now() of the call
ConflictCalls ==
  {[stage |-> "detect", local |-> l, remote |-> r, strategy |-> st, elapsed |-> e,
    conflict |-> <<>>, toPut |-> <<>>] :
     l \in StampedRecords("local"), r \in StampedRecords("remote"),
     st \in Strategies, e \in {0, 1}}

InitConflict ==
  /\ InitEngine(ConfigTables)
  /\ meta = [t \in Tables |-> NoMetadata]
  /\ clock \in 1..MaxClock
  /\ cr \in ConflictCalls
  /\ thrown = <<>>
  /\ abs = [t \in Tables |-> [k \in Keys |-> Absent]]
  /\ InitSide

\* everything but the call of ConflictResolver
engineVars == <<store, changes, changeQueue, pendingLog, upd, isSyncing, op, pc, owner,
                todo, batch, remoteData, resolved, scan, markIds, calls,
                fullpc, running, refused, tables, nMut, lastPush, pushAfter,
                meta, clock, lastPushAll, thrown, abs, sideVars>>

\* const conflict = ConflictResolver.detectConflict(local, record, localTable, record.id);
\* without a conflict the remote record is the one to put
DetectConflict ==
  /\ cr.stage = "detect"
  /\ LET conflict == detectConflict(cr.local, cr.remote, "users", 1,
                                    clock, clock + cr.elapsed)
     IN cr' = [cr EXCEPT !.conflict = conflict,
                         !.stage = IF conflict = <<>> THEN "put" ELSE "resolve",
                         !.toPut = IF conflict = <<>> THEN <<cr.remote>> ELSE <<>>]
  /\ UNCHANGED engineVars

\* const resolved = await ConflictResolver.resolve(conflict, strategy)
Resolve ==
  /\ cr.stage = "resolve"
  /\ cr' = [cr EXCEPT !.stage = "put",
                      !.toPut = <<resolve(cr.conflict[1], cr.strategy)>>]
  /\ UNCHANGED engineVars

NextConflict == DetectConflict \/ Resolve

SpecConflict == InitConflict /\ [][NextConflict]_vars

\* ------------------------------------------- Database.transaction
\* A callback handed to Database.transaction: the calls it makes on the tables
\* it is given, one awaited after the other, and whether it throws after them.
TxnWrites ==
  {[kind |-> kd, table |-> t, key |-> 1] : kd \in {"put", "add"}, t \in Tables}

TxnBodies ==
  {<<w>> : w \in TxnWrites} \cup {<<w1, w2>> : w1 \in TxnWrites, w2 \in TxnWrites}

\* the other components beside the call of transaction
sideOfTxn == <<trk, auto, live, qry, odb, rem>>

\* transaction(tables, mode, callback): db.transaction(tableNames, mode) is
\* created, the promise is set up and callback(tableInstances) is called at
\* once (run 1, whose rejection rejects the promise).  The tables handed over
\* are this.tables.get(name), whose methods open transactions of their own.
\* `before` remembers the tables as the call found them.
Transaction(body, fails) ==
  /\ Task
  /\ txn.stage = "none"
  /\ upd = <<>>
  /\ txn' = [stage |-> "called", body |-> body, fails |-> fails, before |-> store,
             run |-> <<"running", "waiting">>, pos |-> <<1, 1>>, settled |-> "pending"]
  /\ UNCHANGED <<upd, pushAfter, meta, clock, cr, thrown, abs, nMut, lastPush, lastPushAll>>
  /\ UNCHANGED sideOfTxn
  /\ UNCHANGED <<store, changes, changeQueue, pendingLog>>
  /\ UNCHANGED syncVars

\* transaction.oncomplete: the transaction that was created got no request, so
\* it completes before the first request of run 1 does (that one waits for it,
\* their scopes overlap); the handler calls callback(tableInstances) again
\* (run 2, whose outcome settles the promise if it is pending).
TransactionComplete ==
  /\ Task
  /\ txn.stage = "called"
  /\ txn.run = <<"running", "waiting">> /\ txn.pos[1] = 1
  /\ txn' = [txn EXCEPT !.run[2] = "running"]
  /\ UNCHANGED <<upd, pushAfter, meta, clock, cr, thrown, abs, nMut, lastPush, lastPushAll>>
  /\ UNCHANGED sideOfTxn
  /\ UNCHANGED <<store, changes, changeQueue, pendingLog>>
  /\ UNCHANGED syncVars

\* how a run that ends settles the promise: run 1 only rejects it
\* (Promise.resolve(callback(...)).catch(reject)), run 2 resolves or rejects
\* it; a settled promise stays as it is
Settle(r, ending) ==
  IF txn.settled # "pending" THEN txn.settled
  ELSE IF ending = "thrown" THEN "rejected"
  ELSE IF r = 2 THEN "resolved"
  ELSE "pending"

\* the run that made the call at position i of the body goes on after it
AfterWrite(r, failed) ==
  LET i == txn.pos[r]
      ending == IF failed THEN "thrown"
                ELSE IF i < Len(txn.body) THEN "running"
                ELSE IF txn.fails THEN "thrown"
                ELSE "returned" IN
  [txn EXCEPT !.pos[r] = i + 1, !.run[r] = ending,
              !.settled = IF ending = "running" THEN txn.settled ELSE Settle(r, ending)]

\* A call that a run of the callback awaits completes, and the run goes on to
\* its next call, its throw or its return.  Both runs make the same calls on
\* the same stores, so run 2 is always behind run 1.
TransactionStep(r) ==
  LET w == txn.body[txn.pos[r]] IN
  /\ Task
  /\ txn.stage = "called"
  /\ txn.run[r] = "running"
  /\ r = 1 => txn.run[2] # "waiting"
  /\ r = 2 => (txn.run[1] # "running" \/ txn.pos[2] < txn.pos[1])
  /\ HasRoom
  /\ IF w.kind = "add" /\ idbAdd(w.table, w.key) # "ok"
       THEN /\ txn' = AfterWrite(r, TRUE)
            /\ abs' = absAdd(w.table, w.key, Fresh)
            /\ UNCHANGED <<store, changes, changeQueue, pendingLog, nMut, lastPush, lastPushAll>>
       ELSE /\ txn' = AfterWrite(r, FALSE)
            /\ store' = Write(w.table, w.key, Fresh)
            /\ trackChange(w.table, w.key, IF w.kind = "add" THEN "create" ELSE "update",
                           <<[id |-> w.key, v |-> Fresh]>>)
            /\ abs' = IF w.kind = "add" THEN absAdd(w.table, w.key, Fresh)
                                        ELSE absPut(w.table, w.key, Fresh)
  /\ UNCHANGED <<upd, pushAfter, meta, clock, cr, thrown>>
  /\ UNCHANGED sideOfTxn
  /\ UNCHANGED syncVars

\* the tables before the call: a record is added, or nothing is
TransactionBefore ==
  /\ txn.stage = "none"
  /\ changeQueue = <<>>
  /\ \E t \in Tables : Add(t, 1)

NextTransaction ==
  \/ TransactionBefore
  \/ \E body \in TxnBodies : \E fails \in BOOLEAN : Transaction(body, fails)
  \/ TransactionComplete
  \/ \E r \in {1, 2} : TransactionStep(r)
  \/ LogWrite

SpecTransaction == Init /\ [][NextTransaction]_vars

\* ------------------------------------------------- ChangeTracker
\* the other components beside the ChangeTracker
sideOfTracker == <<txn, auto, live, qry, odb, rem>>

\* The database as a ChangeTracker may find it: made by Database.open, whose
\* upgrade creates _changes, or made without that store (no upgrade runs when
\* the version is the one the database has).
InitTracker ==
  /\ InitMain(ConfigTables)
  /\ trk \in {NoTracker, [NoTracker EXCEPT !.hasStore = FALSE]}
  /\ txn = NoTransaction
  /\ auto = NoAutoSync
  /\ live = NoLiveQuery
  /\ qry = NoQuery
  /\ odb = Opened
  /\ rem = NoRemote

\* if (!this.db.objectStoreNames.contains("_changes"))
hasChanges == trk.hasStore

\* A call on the ChangeTracker ends: what it answered, the _changes store
\* after its transaction, and how many records it removed.
TrackerCall(name, answer, log) ==
  /\ Task
  /\ trk' = [stage |-> "done", hasStore |-> trk.hasStore, call |-> name,
             answer |-> answer, removed |-> Len(changes) - Len(log)]
  /\ changes' = log
  /\ UNCHANGED <<changeQueue, pendingLog, nMut, lastPush, pushAfter, lastPushAll,
                 meta, clock, cr, thrown, abs>>
  /\ UNCHANGED sideOfTracker
  /\ UNCHANGED tableVars
  /\ UNCHANGED syncVars

\* getPendingChanges(table?): throws without the store, else returns the
\* unsynced records
GetPendingChanges ==
  IF hasChanges THEN TrackerCall("getPendingChanges", "returned", changes)
  ELSE TrackerCall("getPendingChanges", "thrown", changes)

\* markAsSynced(changeId): throws without the store, else get, set, put
MarkAsSynced(changeId) ==
  IF hasChanges
    THEN /\ Written({changeId})
         /\ TrackerCall("markAsSynced", "returned", markMultipleAsSynced(changes, {changeId}))
    ELSE TrackerCall("markAsSynced", "thrown", changes)

\* markMultipleAsSynced(changeIds): throws without the store
MarkMultipleAsSynced(changeIds) ==
  IF hasChanges
    THEN /\ Written(changeIds)
         /\ TrackerCall("markMultipleAsSynced", "returned",
                        markMultipleAsSynced(changes, changeIds))
    ELSE TrackerCall("markMultipleAsSynced", "thrown", changes)

isSynced_Any(c) == TRUE

\* request.result.filter((c) => c.synced === true)
isSynced(c) == c.synced = TRUE

\* clearSyncedChanges(): returns without the store; else, in one readwrite
\* transaction, getAll, filter, and deleteKey of each record that is synced.
\* The writes queued before the transaction add unsynced records, which it
\* leaves alone.
ClearSyncedChanges ==
  IF hasChanges
    THEN TrackerCall("clearSyncedChanges", "returned",
                     SelectSeq(changes, LAMBDA c : ~isSynced(c)))
    ELSE TrackerCall("clearSyncedChanges", "returned", changes)

\* getChangesByTable(table): returns [] without the store, else what the
\* index on table holds
GetChangesByTable(t) ==
  TrackerCall("getChangesByTable", "returned", changes)

TrackerCalls ==
  \/ GetPendingChanges
  \/ \E id \in 1..MaxChanges : MarkAsSynced(id)
  \/ \E id \in 1..MaxChanges : MarkMultipleAsSynced(1..id)
  \/ ClearSyncedChanges
  \/ \E t \in Tables : GetChangesByTable(t)

\* the application, push and the calls on the ChangeTracker; nothing but
\* those calls is made on a database without _changes
NextTracker ==
  \/ hasChanges /\ MutateOne
  \/ hasChanges /\ LogWrite
  \/ hasChanges /\ (Push \/ PushGroup \/ PushUpsert \/ PushDelete \/ PushMark)
  \/ TrackerCalls

SpecTracker == InitTracker /\ [][NextTracker]_vars

\* ----------------------------------------------------- auto-sync
\* config.sync.autoSync: the constructor calls startAutoSync(), which sets the
\* interval.  `skipped` tells whether a tick found the engine syncing.
InitAutoSync ==
  /\ InitMain(ConfigTables)
  /\ auto = [stage |-> "set", skipped |-> FALSE]
  /\ txn = NoTransaction
  /\ trk = NoTracker
  /\ live = NoLiveQuery
  /\ qry = NoQuery
  /\ odb = Opened
  /\ rem = NoRemote

shouldSync_Always(syncing) == TRUE

\* if (!this.isSyncing)
shouldSync(syncing) == ~syncing

\* the callback of the interval: if (!this.isSyncing) { this.full().catch(...) }
AutoSyncTick ==
  /\ Task
  /\ auto.stage = "set"
  /\ IF ~shouldSync(isSyncing)
       THEN /\ auto' = [auto EXCEPT !.skipped = TRUE]
            /\ UNCHANGED <<txn, trk, live, qry, odb, rem>>
            /\ UNCHANGED <<lastPush, pushAfter, lastPushAll, meta, clock, cr, thrown, abs>>
            /\ UNCHANGED syncVars
            /\ UNCHANGED restVars
            /\ UNCHANGED tableVars
       ELSE Full

\* the application, push() and pull() called by it, and the interval of
\* auto-sync
NextAutoSync ==
  \/ MutateOne \/ LogWrite
  \/ Push \/ PushGroup \/ PushUpsert \/ PushDelete \/ PushMark
  \/ Pull \/ PullFetch \/ PullGet \/ PullPut \/ PullMeta
  \/ AutoSyncTick

SpecAutoSync == InitAutoSync /\ [][NextAutoSync]_vars

\* ------------------------------------------------------ realtime
\* the payloads that the channel of table t delivers: the row after the change
\* (`new`) and the row before it (`old`)
RealtimePayloads(t) ==
  {[eventType |-> e, new |-> [id |-> k, v |-> RemoteVal], old |-> [id |-> k]] :
     e \in {"INSERT", "UPDATE", "DELETE"}, k \in KeysIn(t)}

realtimeWrite_UpdateDeletes(payload) ==
  CASE payload.eventType = "INSERT" -> [kind |-> "put", item |-> payload.new]
    [] payload.eventType \in {"UPDATE", "DELETE"} -> [kind |-> "delete", key |-> payload.old.id]

\* switch (payload.eventType): the call on the table that the handler makes
realtimeWrite(payload) ==
  CASE payload.eventType \in {"INSERT", "UPDATE"} -> [kind |-> "put", item |-> payload.new]
    [] payload.eventType = "DELETE" -> [kind |-> "delete", key |-> payload.old.id]

\* setupRealtime: the handler subscribed for table t gets a payload and awaits
\* table.put(payload.new) or table.delete(payload.old.id), the calls of Table
\* that the application makes too (their change records included)
RealtimeEvent(t, payload) ==
  LET w == realtimeWrite(payload) IN
  /\ Task
  /\ HasRoom
  /\ CASE w.kind = "put" ->
            /\ put(t, w.item, w.item.id)
            /\ abs' = absPut(t, w.item.id, w.item.v)
       [] w.kind = "delete" ->
            /\ store' = Write(t, w.key, Absent)
            /\ trackChange(t, w.key, "delete", <<>>)
            /\ abs' = absDelete(t, w.key)
  /\ UNCHANGED <<upd, pushAfter, meta, clock, cr, thrown, sideVars>>
  /\ UNCHANGED syncVars

\* the application on the tables, and the events of the realtime channels
NextRealtime ==
  \/ Mutate \/ UpdatePut \/ LogWrite
  \/ \E t \in Tables : \E payload \in RealtimePayloads(t) : RealtimeEvent(t, payload)

SpecRealtime == Init /\ [][NextRealtime]_vars

\* ----------------------------------------------------- LiveQuery
\* the table that the LiveQuery is made on, and the functions that the
\* application subscribes
QueriedTable == "users"

Callbacks == {"f", "g"}

\* the other components beside the LiveQuery
sideOfLive == <<txn, trk, auto, qry, odb, rem>>

\* what only the LiveQuery writes
liveFrame == <<store, upd, changes, changeQueue, pendingLog, nMut, lastPush, pushAfter,
               lastPushAll, meta, clock, cr, thrown, abs>>

\* refresh(): `await this.query.toArray()`: toArray creates its readonly
\* transaction when called, so the result that arrives later is the table as
\* the call found it (the query has no clause)
refresh == Append(live.inflight, getAll(QueriedTable))

\* table.live(): new LiveQuery(table).  The Observable starts with the value
\* [], no callback and no interval, and the constructor calls refresh()
\* without awaiting it.  `subs` are the subscriptions made, each with its
\* callback, whether its unsubscribe function has been called, and the value
\* that subscribe() handed to the callback; `invoked` are the callbacks that
\* the last next() called.
LiveCreate ==
  /\ Task
  /\ live.stage = "none"
  /\ live' = [stage |-> "made", value |-> <<>>, callbacks |-> {}, subs |-> <<>>,
              timer |-> FALSE, intervals |-> 0,
              inflight |-> <<getAll(QueriedTable)>>, invoked |-> {}]
  /\ UNCHANGED liveFrame
  /\ UNCHANGED sideOfLive
  /\ UNCHANGED syncVars

\* Observable.subscribe(callback): callbacks.add(callback), then
\* callback(this._value) when the value is defined (it always is: it starts
\* as []); what the callback gets
subscribe(callback) == live.value

\* LiveQuery.subscribe(callback): observable.subscribe(callback), then
\* setupChangeDetection() unless this.unsubscribe is set
LiveSubscribe(callback) ==
  /\ Task
  /\ live.stage = "made"
  /\ Len(live.subs) < MaxSubs
  /\ live' = [live EXCEPT
       !.callbacks = live.callbacks \cup {callback},
       !.subs = Append(live.subs, [callback |-> callback, open |-> TRUE,
                                   first |-> subscribe(callback)]),
       !.timer = TRUE,
       !.intervals = IF live.timer THEN live.intervals ELSE live.intervals + 1]
  /\ UNCHANGED liveFrame
  /\ UNCHANGED sideOfLive
  /\ UNCHANGED syncVars

\* The function that LiveQuery.subscribe returned is called, for the first
\* time or again: callbacks.delete(callback), and when no callback is left and
\* this.unsubscribe is set, clearInterval and this.unsubscribe = null.
LiveUnsubscribe(i) ==
  LET left == live.callbacks \ {live.subs[i].callback}
      stops == left = {} /\ live.timer IN
  /\ Task
  /\ live.stage = "made"
  /\ i \in DOMAIN live.subs
  /\ live' = [live EXCEPT
       !.callbacks = left,
       !.subs[i].open = FALSE,
       !.timer = IF stops THEN FALSE ELSE live.timer,
       !.intervals = IF stops THEN live.intervals - 1 ELSE live.intervals]
  /\ UNCHANGED liveFrame
  /\ UNCHANGED sideOfLive
  /\ UNCHANGED syncVars

\* the interval of setupChangeDetection fires: this.refresh()
LivePoll ==
  /\ Task
  /\ live.stage = "made"
  /\ live.intervals > 0
  /\ Len(live.inflight) < MaxRefresh
  /\ live' = [live EXCEPT !.inflight = refresh]
  /\ UNCHANGED liveFrame
  /\ UNCHANGED sideOfLive
  /\ UNCHANGED syncVars

\* toArray() of a refresh() returns: this.observable.next(results) sets the
\* value and calls every callback of the set
LiveNext ==
  /\ Task
  /\ live.stage = "made"
  /\ live.inflight # <<>>
  /\ live' = [live EXCEPT !.value = Head(live.inflight),
                          !.inflight = Tail(live.inflight),
                          !.invoked = live.callbacks]
  /\ UNCHANGED liveFrame
  /\ UNCHANGED sideOfLive
  /\ UNCHANGED syncVars

\* the application on the table, and a LiveQuery on it
NextLiveQuery ==
  \/ MutateOne \/ LogWrite
  \/ LiveCreate
  \/ \E callback \in Callbacks : LiveSubscribe(callback)
  \/ \E i \in 1..MaxSubs : LiveUnsubscribe(i)
  \/ LivePoll \/ LiveNext

SpecLiveQuery == Init /\ [][NextLiveQuery]_vars

\* ---------------------------------------------------------- Query
\* What store.getAll() gives a Query: the records of the store in key order,
\* each with its key `id` and a field `v`.
QuerySources ==
  UNION {[1..n -> 1..MaxValue] : n \in 0..MaxRecords}

RecordsOf(values) == [i \in DOMAIN values |-> [id |-> i, v |-> values[i]]]

\* the clauses that where(field).<operator>(value) adds, on the field v; the
\* value is written as a tuple, <<value>> or <<lower, upper>> for between
WhereClauses ==
  {[field |-> "v", operator |-> o, value |-> <<x>>] :
     o \in {"=", ">", ">=", "<", "<=", "!="}, x \in 1..MaxValue}
  \cup {[field |-> "v", operator |-> "between", value |-> range] :
          range \in {r \in (1..MaxValue) \X (1..MaxValue) : r[1] <= r[2]}}

\* limitCount: number | null = null
NoLimit == Absent

\* the queries that the builder calls where, filter, sort, limit and offset
\* make: no clause or one, no predicate or (item) => item.id % 2 === 1, no
\* sort or a sort on v or on id
Queries ==
  [whereClauses : {<<>>} \cup {<<c>> : c \in WhereClauses},
   filterPredicate : {"none", "oddId"},
   sortField : {"none", "v", "id"},
   sortDirection : {"asc", "desc"},
   limitCount : {NoLimit} \cup 0..2,
   offsetCount : 0..2]

\* A Query was built over a store; no terminal call has been made on it.
InitQuery ==
  /\ InitMain(ConfigTables)
  /\ \E values \in QuerySources : \E q \in Queries :
       /\ q.sortField = "none" => q.sortDirection = "asc"
       /\ qry = [stage |-> "made", source |-> RecordsOf(values), query |-> q,
                 call |-> "none", result |-> <<>>]
  /\ txn = NoTransaction
  /\ trk = NoTracker
  /\ auto = NoAutoSync
  /\ live = NoLiveQuery
  /\ odb = Opened
  /\ rem = NoRemote

\* (item as any)[field]
fieldOf(item, field) == IF field = "id" THEN item.id ELSE item.v

\* applyWhereClause(results, clause): the switch on clause.operator; an
\* operator without a case falls to `default: return true`
applyWhereClause(results, clause) ==
  SelectSeq(results, LAMBDA item :
    LET fieldValue == fieldOf(item, clause.field) IN
    CASE clause.operator = "="  -> fieldValue = clause.value[1]
      [] clause.operator = ">"  -> fieldValue > clause.value[1]
      [] clause.operator = ">=" -> fieldValue >= clause.value[1]
      [] clause.operator = "<"  -> fieldValue < clause.value[1]
      [] clause.operator = "<=" -> fieldValue <= clause.value[1]
      [] clause.operator = "!=" -> fieldValue # clause.value[1]
      [] OTHER -> TRUE)

RECURSIVE applyWhereClauses(_, _)
\* for (const clause of this.whereClauses) results = this.applyWhereClause(results, clause)
applyWhereClauses(results, clauses) ==
  IF clauses = <<>> THEN results
  ELSE applyWhereClauses(applyWhereClause(results, Head(clauses)), Tail(clauses))

\* if (filterPredicate) results = results.filter(filterPredicate)
applyFilter(results, predicate) ==
  IF predicate = "none" THEN results
  ELSE SelectSeq(results, LAMBDA item : item.id % 2 = 1)

\* the comparator handed to results.sort: aVal < bVal ? -1 : aVal > bVal ? 1 : 0,
\* negated for "desc"
comparison(a, b, q) ==
  LET aVal == fieldOf(a, q.sortField)
      bVal == fieldOf(b, q.sortField)
      c == IF aVal < bVal THEN -1 ELSE IF aVal > bVal THEN 1 ELSE 0 IN
  IF q.sortDirection = "asc" THEN c ELSE -c

\* x goes behind the elements that do not come after it
insertSorted(sorted, x, q) ==
  LET n == Cardinality({i \in DOMAIN sorted : comparison(sorted[i], x, q) <= 0}) IN
  SubSeq(sorted, 1, n) \o <<x>> \o SubSeq(sorted, n + 1, Len(sorted))

RECURSIVE sortResults(_, _)
\* Array.prototype.sort with that comparator: a stable sort
sortResults(results, q) ==
  IF results = <<>> THEN <<>>
  ELSE insertSorted(sortResults(SubSeq(results, 1, Len(results) - 1), q),
                    results[Len(results)], q)

\* results.slice(start) and results.slice(0, end), for start, end >= 0
sliceFrom(results, start) == SubSeq(results, start + 1, Len(results))

sliceTo(results, end) == SubSeq(results, 1, IF end < Len(results) THEN end ELSE Len(results))

\* Query.toArray(): getAll of the store (no index is ever set: setIndex has
\* no caller), the where-clauses, the predicate, the sort, offset, limit
toArray(source, q) ==
  LET filtered == applyFilter(applyWhereClauses(source, q.whereClauses), q.filterPredicate)
      sorted == IF q.sortField # "none" THEN sortResults(filtered, q) ELSE filtered
      skipped == IF q.offsetCount > 0 THEN sliceFrom(sorted, q.offsetCount) ELSE sorted IN
  IF q.limitCount # NoLimit THEN sliceTo(skipped, q.limitCount) ELSE skipped

\* the frame of a terminal call of a Query
queryFrame ==
  <<store, upd, changes, changeQueue, pendingLog, nMut, lastPush, pushAfter, lastPushAll,
    meta, clock, cr, thrown, abs, txn, trk, auto, live, odb, rem>>

ToArray ==
  /\ qry.stage = "made"
  /\ qry' = [qry EXCEPT !.call = "toArray", !.result = toArray(qry.source, qry.query)]
  /\ UNCHANGED queryFrame
  /\ UNCHANGED syncVars

\* first(): this.limit(1).toArray(), then results[0]; limit(1) sets limitCount
\* of this query
First ==
  LET limited == [qry.query EXCEPT !.limitCount = 1]
      results == toArray(qry.source, limited) IN
  /\ qry.stage = "made"
  /\ qry' = [qry EXCEPT !.call = "first", !.query = limited,
                        !.result = IF results = <<>> THEN <<>> ELSE <<results[1]>>]
  /\ UNCHANGED queryFrame
  /\ UNCHANGED syncVars

\* count(): toArray(), then results.length
Count ==
  /\ qry.stage = "made"
  /\ qry' = [qry EXCEPT !.call = "count",
                        !.result = <<Len(toArray(qry.source, qry.query))>>]
  /\ UNCHANGED queryFrame
  /\ UNCHANGED syncVars

NextQuery == ToArray \/ First \/ Count

SpecQuery == InitQuery /\ [][NextQuery]_vars

\* ------------------------------------- the guard, when calls throw
\* new Database(...) before open(): Database.db is null
Unopened == [db |-> "null", openingPromise |-> FALSE]

\* push(), pull() or pushAll() on a Database that is not open.  push() throws
\* in getChangeTracker(), pull() at `if (!idb)`, pushAll() in this.db.table()
\* of its first table (rethrown by its catch): all inside the try and before
\* the first await, so the flag is set, the finally clears it and the call
\* rejects within the one step.  pushAll() over no table returns normally.
SyncNotOpen ==
  /\ odb.db = "null"
  /\ ~isSyncing
  /\ isSyncing' = Finally(TRUE)
  /\ \E o \in {"push", "pull", "pushAll"} :
       /\ lastPush' = IF o = "push" THEN "error" ELSE lastPush
       /\ lastPushAll' = IF o = "pushAll"
                           THEN (IF tables = <<>> THEN "ok" ELSE "error")
                           ELSE lastPushAll
  /\ UNCHANGED <<op, pc, owner, running, refused, tables, fullpc>>
  /\ UNCHANGED <<pushAfter, meta, clock, cr, thrown, abs, sideVars>>
  /\ UNCHANGED workVars
  /\ UNCHANGED restVars
  /\ UNCHANGED tableVars

\* push() on a database without the store _changes: the promise of
\* getPendingChanges() rejects, push() leaves through its finally and rejects
PushNoLog ==
  /\ Task
  /\ op = "push" /\ pc = "push_read"
  /\ ~hasChanges
  /\ pushLeave("error")
  /\ UNCHANGED <<pushAfter, lastPushAll, meta, clock, cr, thrown, abs, sideVars>>
  /\ UNCHANGED restVars
  /\ UNCHANGED tableVars

\* pull() on a database without the store _changes, the remote answering with
\* no record: getPendingChanges() rejects where the SyncMetadata is built, the
\* catch of the loop takes it, its own setSyncMetadata fails the same way
\* (caught, logged), and the loop goes on
PullNoLog ==
  /\ Task
  /\ op = "pull" /\ pc = "pull_fetch"
  /\ ~hasChanges
  /\ pullNextTable
  /\ UNCHANGED meta
  /\ UNCHANGED restVars
  /\ UNCHANGED tableVars

\* the database: open with its change log, open without it, or not open
InitGuard ==
  /\ \E cfg \in Configs : InitMain(cfg)
  /\ txn = NoTransaction
  /\ auto = NoAutoSync
  /\ live = NoLiveQuery
  /\ qry = NoQuery
  /\ \E opened, log \in BOOLEAN :
       /\ odb = IF opened THEN Opened ELSE Unopened
       /\ trk = [NoTracker EXCEPT !.hasStore = opened /\ log]
  /\ rem = NoRemote

\* every entry point of the SyncEngine on each of them
NextGuard ==
  \/ /\ odb.db = "open" /\ hasChanges
     /\ NextSync
  \/ /\ odb.db = "open" /\ ~hasChanges
     /\ \/ Push \/ PushNoLog
        \/ Pull \/ PullNoLog
        \/ PushAll \/ PushAllUpsert
        \/ SyncWhileSyncing
  \/ SyncNotOpen

SpecGuard == InitGuard /\ [][NextGuard]_vars

\* ------------------------------------------------- Database.open
\* the versions that the database may have on disk before open() (0: there is
\* no such database)
DiskVersions == {0, 1, 2, 12, 1000}

\* private calculateVersion(): number { return 1; }
calculateVersion == 1

\* the other components beside the Database being opened
sideOfOpen == <<txn, trk, auto, live, qry, rem>>

openFrame ==
  <<store, upd, changes, changeQueue, pendingLog, nMut, lastPush, pushAfter, lastPushAll,
    meta, clock, cr, thrown, abs>>

\* new Database(name, schema): db and openingPromise are null.  The database
\* on disk has some version, and its stores _metadata and _changes or not (a
\* database made by other code); `callers` holds what each call of open() has
\* got so far, `requests` counts the calls of indexedDB.open.
InitOpen ==
  /\ InitMain(ConfigTables)
  /\ txn = NoTransaction
  /\ trk = NoTracker
  /\ auto = NoAutoSync
  /\ live = NoLiveQuery
  /\ qry = NoQuery
  /\ rem = NoRemote
  /\ \E dv \in DiskVersions : \E stores \in BOOLEAN :
       /\ dv = 0 => ~stores
       /\ odb = [db |-> "null", openingPromise |-> FALSE, pc |-> "none",
                 version |-> calculateVersion, v |-> calculateVersion,
                 disk |-> [version |-> dv, stores |-> stores],
                 callers |-> <<>>, requests |-> 0]

\* indexedDB.open(name, version) on the database on disk: a VersionError when
\* the version asked for is below the one on disk
openDatabase(version) ==
  IF version < odb.disk.version THEN "VersionError" ELSE "ok"

\* the database on disk after a successful open: onupgradeneeded runs when the
\* version rises, and setupSchema and initMetadataStores create what is missing
diskAfter(version) ==
  IF version > odb.disk.version THEN [version |-> version, stores |-> TRUE]
  ELSE odb.disk

\* finally { this.openingPromise = null }: the promise that the calls of
\* open() in flight hold settles
settle(d, outcome) ==
  [d EXCEPT !.openingPromise = FALSE, !.pc = "none",
            !.callers = [i \in DOMAIN @ |-> IF @[i] = "waiting" THEN outcome ELSE @[i]]]

\* this.db has been assigned at `version`: if the stores _metadata or _changes
\* are missing, this.db.close(), this.version + 1 and openDatabase again
\* (this.db keeps the closed IDBDatabase meanwhile); else createTables() and
\* return this
opened(version) ==
  LET d == [odb EXCEPT !.db = "open", !.version = version, !.disk = diskAfter(version)] IN
  IF ~d.disk.stores
    THEN [d EXCEPT !.db = "closed", !.version = version + 1, !.v = version + 1,
                   !.pc = "reopen", !.requests = @ + 1]
    ELSE settle(d, "opened")

\* open(): `if (this.db) return this`, `if (this.openingPromise) return
\* this.openingPromise`, else the async function starts and runs up to its
\* first await, openDatabase(this.name, this.version)
Open ==
  /\ Len(odb.callers) < MaxOpens
  /\ odb' =
       IF odb.db # "null"
         THEN [odb EXCEPT !.callers = Append(@, IF odb.db = "open" THEN "opened" ELSE "closed")]
       ELSE IF odb.openingPromise
         THEN [odb EXCEPT !.callers = Append(@, "waiting")]
       ELSE [odb EXCEPT !.version = calculateVersion, !.v = calculateVersion,
                        !.openingPromise = TRUE, !.pc = "first",
                        !.requests = @ + 1, !.callers = Append(@, "waiting")]
  /\ UNCHANGED sideOfOpen
  /\ UNCHANGED openFrame
  /\ UNCHANGED syncVars

\* the openDatabase that open() awaits settles: opened, a VersionError, or
\* another error (blocked, quota, ...)
OpenStep ==
  /\ odb.pc # "none"
  /\ \E answer \in {openDatabase(odb.v), "error"} :
       odb' =
         CASE answer = "ok" /\ odb.pc = "reopen" ->
                settle([odb EXCEPT !.db = "open", !.disk = diskAfter(odb.v)], "opened")
           [] answer = "ok" /\ odb.pc # "reopen" -> opened(odb.v)
           [] answer = "VersionError" /\ odb.pc = "first" ->
                [odb EXCEPT !.pc = "retry", !.v = odb.version + 1, !.requests = @ + 1]
           [] answer = "VersionError" /\ odb.pc = "retry" ->
                IF odb.v < odb.version + VersionTries
                  THEN [odb EXCEPT !.v = @ + 1, !.requests = @ + 1]
                  ELSE [odb EXCEPT !.pc = "last", !.version = LastVersion, !.v = LastVersion,
                                   !.requests = @ + 1]
           [] OTHER -> settle(odb, "rejected")
  /\ UNCHANGED sideOfOpen
  /\ UNCHANGED openFrame
  /\ UNCHANGED syncVars

NextOpen == Open \/ OpenStep

SpecOpen == InitOpen /\ [][NextOpen]_vars

\* ================================================================ claims
\* the step appends exactly one record to the change log: of table t, of the
\* given operation, unsynced, and leaves the records before it alone
AppendsOne(t, operation) ==
  /\ Len(LogView') = Len(LogView) + 1
  /\ SubSeq(LogView', 1, Len(LogView)) = LogView
  /\ LogView'[Len(LogView')].table = t
  /\ LogView'[Len(LogView')].operation = operation
  /\ LogView'[Len(LogView')].synced = FALSE

\* C1 (as stated): in every reachable state the _changes store holds exactly
\* one ChangeRecord for each table mutation that returned success, none
\* missing (also while the change-log write is outstanding) and none extra.
C1_OneDurabilityUnit == Len(changes) = nMut

\* C2: each successful add / put / delete appends exactly one ChangeRecord,
\* synced = false, with operation create / update / delete; update(key, ...)
\* appends exactly one 'update' record (none at its get, one at its put); and
\* as long as no sync call is made every mutation's record is unsynced.
C2_OneRecordPerMutation ==
  /\ [](Len(getPendingChanges) = nMut)
  /\ [][\A t \in Tables :
          /\ \A k \in Keys :
               /\ Add(t, k) => AppendsOne(t, "create")
               /\ Put(t, k) => AppendsOne(t, "update")
               /\ Delete(t, k) => AppendsOne(t, "delete")
               /\ UpdateGet(t, k) => LogView' = LogView
          /\ PutNoId(t) => AppendsOne(t, "update")
          /\ (UpdatePut /\ upd[1].table = t) => AppendsOne(t, "update")]_vars

\* C2 witness: add, update, delete on key 1 of "users" and no sync call: the
\* change log holds exactly 3 entries for the table, all unsynced.
C2_ThreeUnsynced ==
  /\ Len(changes) = 3
  /\ changes[1].operation = "create"
  /\ changes[2].operation = "update"
  /\ changes[3].operation = "delete"
  /\ \A i \in 1..3 : changes[i].table = "users" /\ changes[i].key = 1
  /\ Len(getPendingChangesOf("users")) = 3

\* ids of the records of a log that are marked synced
SyncedIds(log) == {log[i].id : i \in {j \in DOMAIN log : log[j].synced}}

\* ids of the records the step marks synced
Flipped == SyncedIds(changes') \ SyncedIds(changes)

\* every remote call pushTableChanges issues for the batch cs of table t has
\* been made and returned success
CallsSucceeded(t, cs) ==
  /\ NeedUpsert(cs) =>
       \E i \in DOMAIN calls : calls[i].kind = "upsert" /\ calls[i].table = t /\ calls[i].ok
  /\ NeedDelete(cs) =>
       \E i \in DOMAIN calls : calls[i].kind = "delete" /\ calls[i].table = t /\ calls[i].ok

\* C3: during push(), records are marked synced only by the marking step of
\* their own table's batch, which is reached only after every remote call
\* issued for that batch returned success, and that step marks the whole
\* batch; when a remote call fails, push() ends with every record of that
\* table's batch still unsynced.
C3_SyncedIffCallsSucceeded ==
  [][op = "push" =>
       /\ Flipped # {} =>
            /\ pc = "push_mark"
            /\ Flipped \subseteq IdsOf(BatchOf(Head(todo)))
            /\ CallsSucceeded(Head(todo), BatchOf(Head(todo)))
       /\ PushMark => IdsOf(BatchOf(Head(todo))) \subseteq SyncedIds(changes')
       /\ (pc \in {"push_upsert", "push_delete"} /\ op' = "none") =>
            IdsOf(BatchOf(Head(todo))) \cap SyncedIds(LogView') = {}]_vars

\* C3 witness: a push over two tables has made the remote calls of the first
\* table and marked its batch; the second table's batch is still unsynced.
C3_FirstTableMarked ==
  /\ op = "push"
  /\ Len(TablesOf(batch)) = 2
  /\ Len(todo) = 1
  /\ calls # <<>>
  /\ IdsOf(BatchOf(batch[1].table)) \subseteq SyncedIds(changes)
  /\ IdsOf(BatchOf(Head(todo))) \cap SyncedIds(LogView) = {}

\* C4 (as stated): failure isolation in push(): when push() ends, every table
\* of its batch that comes after the one being pushed has been pushed as well,
\* its ChangeRecords marked synced, whether or not the remote call of the
\* current table failed.
C4_FailureIsolation ==
  [][(op = "push" /\ op' = "none" /\ todo # <<>>) =>
       \A i \in 2..Len(todo) : IdsOf(BatchOf(todo[i])) \subseteq SyncedIds(changes')]_vars

\* C5 (as stated): no step of pull() records anything in the change log: the
\* unsynced ChangeRecords are the same before and after it.
C5_PullRecordsNothing ==
  [][(Pull \/ PullFetch \/ PullGet \/ PullPut \/ PullMeta) =>
       getPendingChanges' = getPendingChanges]_vars

C7_PullThenPush ==
  [][fullpc = "between" =>
       \/ fullpc' = "pushing"
       \/ UNCHANGED <<fullpc, isSyncing, op>>]_vars

\* C8: synced is monotone.  A ChangeRecord enters the change log with
\* synced = false, and a record that is synced stays in the log and stays
\* synced through every step (table mutations, push, pushAll and their
\* markMultipleAsSynced).
C8_SyncedMonotone ==
  /\ [][Len(LogView') > Len(LogView) => ~LogView'[Len(LogView')].synced]_vars
  /\ [][SyncedIds(LogView) \subseteq SyncedIds(LogView')]_vars

\* C8 witness: two records were marked synced, and a later mutation of the
\* same key was recorded after that: it is unsynced, they still are synced.
C8_SyncedThenMore ==
  /\ Len(changes) = 3
  /\ changes[1].synced /\ changes[2].synced /\ ~changes[3].synced
  /\ changes[1].table = changes[3].table
  /\ changes[1].key = changes[3].key

\* the upsert / delete calls made for table t by the running push
CallsOf(kind, t) == SelectSeq(calls, LAMBDA c : c.kind = kind /\ c.table = t)

\* the data of the last 'update' entry of cs for key k
RECURSIVE LastUpdate(_, _, _)
LastUpdate(cs, k, found) ==
  IF cs = <<>> THEN found
  ELSE LastUpdate(Tail(cs), k,
                  IF Head(cs).operation = "update" /\ Head(cs).data[1].id = k
                    THEN Head(cs).data ELSE found)

\* C9 (as stated): when pushTableChanges has made its remote calls for a
\* table (it is about to mark the batch), all the creates and updates of the
\* batch went out in exactly one upsert: every create / update entry has its
\* record in it, at most one record per key, and for a key with an update
\* entry the record is the (last) update's data; and all the deleted keys went
\* out in exactly one delete call.
C9_OneUpsertOneDelete ==
  [][PushMark =>
       LET t == Head(todo)
           cs == BatchOf(t)
           data == DataOf(cs, "create") \o DataOf(cs, "update")
           ups == CallsOf("upsert", t)
           dels == CallsOf("delete", t)
       IN /\ data # <<>> =>
               /\ Len(ups) = 1
               /\ \A i, j \in DOMAIN ups[1].records :
                    ups[1].records[i].id = ups[1].records[j].id => i = j
               /\ \A i \in DOMAIN data :
                    \E j \in DOMAIN ups[1].records : ups[1].records[j].id = data[i].id
               /\ \A j \in DOMAIN ups[1].records :
                    LET last == LastUpdate(cs, ups[1].records[j].id, <<>>) IN
                    last # <<>> => ups[1].records[j] = last[1]
          /\ data = <<>> => Len(ups) = 0
          /\ KeysOf(cs) # <<>> => Len(dels) = 1 /\ dels[1].keys = KeysOf(cs)
          /\ KeysOf(cs) = <<>> => Len(dels) = 0]_vars

LiveTable == "todos"

\* the upsert / the delete of the running push() for table t returns success
UpsertOk(t) == PushUpsert /\ Head(todo) = t /\ op' = "push"

DeleteOk(t) == PushDelete /\ Head(todo) = t /\ op' = "push"

\* the application and push() alone
NextLive ==
  \/ MutateBoth \/ LogWrite
  \/ Push \/ PushGroup \/ PushUpsert \/ PushDelete \/ PushMark

\* push() is called again and again, every request and every remote call
\* comes back, and those for LiveTable come back with success sooner or later
SpecLive ==
  /\ Init /\ [][NextLive]_vars
  /\ WF_vars(LogWrite) /\ WF_vars(Push) /\ WF_vars(PushGroup)
  /\ WF_vars(PushUpsert) /\ WF_vars(PushDelete) /\ WF_vars(PushMark)
  /\ SF_vars(UpsertOk(LiveTable)) /\ SF_vars(DeleteOk(LiveTable))

\* C11 (as stated): with push() called repeatedly and the remote calls for
\* LiveTable eventually succeeding, every ChangeRecord of LiveTable is
\* eventually marked synced, whatever the backend does for the other tables.
C11_AtLeastOnce ==
  \A i \in 1..MaxChanges :
    (\E j \in DOMAIN LogView : LogView[j].id = i /\ LogView[j].table = LiveTable)
      ~> (i \in SyncedIds(changes))

\* ------------------------------------------------------------- pushAll
\* the upsert of the running pushAll() comes back with an error: the step of
\* pushAll() out of its upsert that does not go on to the marking
PushAllFails ==
  /\ op = "pushAll" /\ pc = "pushall_upsert" /\ scan # <<>>
  /\ <<pc, todo>>' # <<pc, todo>>
  /\ pc' # "pushall_mark"

\* table t of the configuration and the tables after it
FromTable(cfg, t) == {cfg[j] : j \in {i \in DOMAIN cfg : \E h \in 1..i : cfg[h] = t}}

\* C12: pushAll is all-or-abort.  When the upsert of a table fails, pushAll()
\* ends there with the error: the flag is cleared, no later table is read or
\* upserted, and nothing is marked.  Records are marked by pushAll() only in
\* the marking step of a table whose upsert succeeded, only records of that
\* table, and the table is not visited again: so no ChangeRecord of the failing
\* table has been marked by the call.
C12_AllOrAbort ==
  /\ [][PushAllFails =>
          /\ op' = "none" /\ ~isSyncing'
          /\ lastPushAll = "running" => lastPushAll' = "error"
          /\ todo' = <<>> /\ scan' = <<>> /\ markIds' = {}
          /\ Len(calls') <= Len(calls)
          /\ Flipped = {}]_vars
  /\ [][(op = "pushAll" /\ Flipped # {}) =>
          /\ pc = "pushall_mark"
          /\ \A i \in DOMAIN changes :
               changes'[i] # changes[i] => changes[i].table = Head(todo)
          /\ \E c \in DOMAIN calls :
               calls[c].kind = "upsert" /\ calls[c].table = Head(todo) /\ calls[c].ok
          /\ \A j \in DOMAIN todo' : todo'[j] # Head(todo)]_vars
  /\ [][(op = "pushAll" /\ op' = "pushAll" /\ calls' # calls) =>
          /\ pc = "pushall_upsert"
          /\ calls' = Append(calls, calls'[Len(calls')])
          /\ calls'[Len(calls')].table = Head(todo)
          /\ \A c \in DOMAIN calls : calls[c].table \notin FromTable(tables, Head(todo))]_vars

\* pushAll() went through "users" and failed at "todos": it ended with the
\* error, the "users" change is synced, the "todos" change is not
C12_FailedAtSecondTable ==
  /\ lastPushAll = "error"
  /\ op = "none"
  /\ \E i \in DOMAIN changes : changes[i].table = "users" /\ changes[i].synced
  /\ \E i \in DOMAIN changes : changes[i].table = "todos" /\ ~changes[i].synced
  /\ getAll("todos") # <<>>

\* C13 (as stated): when the last pushAll() completed without error and no
\* mutation has been recorded since it was called, no table of the
\* configuration has an unsynced ChangeRecord, a table that is empty now and
\* has pending delete entries included.
C13_PushAllLeavesNothingPending ==
  lastPushAll = "ok" =>
    \A i \in DOMAIN LogView :
      (\E j \in DOMAIN tables : tables[j] = LogView[i].table) => LogView[i].synced

\* what pushAll() sent in the upsert it has just made
Sent == calls[Len(calls)].records

\* C14: pushAll deduplicates by key.  The list sent to the remote upsert holds
\* each key at most once; every record sent is the last record of the scan
\* with its key; every key of the scan is sent.
C14_LastSeenWins ==
  (op = "pushAll" /\ pc = "pushall_mark") =>
    /\ \A i, j \in DOMAIN Sent : Sent[i].id = Sent[j].id => i = j
    /\ \A i \in DOMAIN Sent :
         \E k \in DOMAIN scan :
           /\ scan[k] = Sent[i]
           /\ \A l \in DOMAIN scan : l > k => scan[l].id # Sent[i].id
    /\ \A k \in DOMAIN scan :
         scan[k].id # NoKey => \E i \in DOMAIN Sent : Sent[i].id = scan[k].id

\* the scan held two different records with the same key, the upsert is made
C14_DuplicateInScan ==
  /\ op = "pushAll" /\ pc = "pushall_mark"
  /\ \E k, l \in DOMAIN scan :
       /\ k < l
       /\ scan[k].id = scan[l].id /\ scan[k].id # NoKey /\ scan[k].v # scan[l].v
       /\ \E i \in DOMAIN Sent : Sent[i] = scan[l]

\* ---------------------------------------------------------- SyncMetadata
\* a step of the running pull() itself
PullMoves == op = "pull" /\ <<op, pc, todo, remoteData, resolved>>' # <<op, pc, todo, remoteData, resolved>>

\* the pull of the current table fails: pull() leaves it without having
\* reached setSyncMetadata({... syncStatus: "idle"})
PullFailsHere == PullMoves /\ pc = "pull_fetch" /\ pc' \notin {"pull_get", "pull_meta"}

\* the pull of the current table is completed
PullSucceedsHere == PullMoves /\ pc = "pull_meta"

\* pull() goes on with the table after the current one, or ends after the last
PullGoesOn ==
  IF Tail(todo) = <<>> THEN op' # "pull"
  ELSE op' = "pull" /\ todo' = Tail(todo) /\ pc' = "pull_fetch"

\* what pull() does about SyncMetadata, the failure case apart: success writes
\* idle with Date.now(); no other step of pull() writes _metadata; every table
\* of the configuration gets its turn whatever happened to those before it
PullMetadataSteps ==
  /\ [][PullSucceedsHere =>
          /\ meta' = [meta EXCEPT ![Head(todo)] =
                        [syncStatus |-> "idle", lastSyncTimestamp |-> clock]]
          /\ PullGoesOn]_vars
  /\ [][PullFailsHere =>
          /\ meta'[Head(todo)].syncStatus = "error"
          /\ \A t \in Tables \ {Head(todo)} : meta'[t] = meta[t]
          /\ PullGoesOn]_vars
  /\ [][(PullMoves /\ ~PullSucceedsHere /\ ~PullFailsHere) =>
          (meta' = meta /\ todo' = todo)]_vars
  /\ [][(op # "pull" /\ op' = "pull") => todo' = tables]_vars

TableInFlight ==
  IF op = "pull" \/ (op = "push" /\ pc \in {"push_upsert", "push_delete", "push_mark"})
    THEN {Head(todo)} ELSE {}

\* C16 (as stated): the syncStatus of a table follows idle -> syncing ->
\* {idle, error}: it is "syncing" while the table is being pulled or pushed,
\* and it becomes idle or error only from "syncing".
C16_StatusMachine ==
  /\ [](\A t \in TableInFlight : meta[t].syncStatus = "syncing")
  /\ [][\A t \in Tables :
          (meta'[t].syncStatus # meta[t].syncStatus
             /\ meta'[t].syncStatus \in {"idle", "error"})
            => meta[t].syncStatus = "syncing"]_vars

\* -------------------------------------------------- ConflictResolver
\* the timestamp of a record as the specification gives it: from updated_at,
\* else from created_at, else the current time
StampOf(record, now) ==
  IF record.updated_at # NoStamp THEN record.updated_at[1]
  ELSE IF record.created_at # NoStamp THEN record.created_at[1] ELSE now

\* the two timestamps of the call that cr holds
LocalStamp == StampOf(cr.local, clock)

RemoteStamp == StampOf(cr.remote, clock + cr.elapsed)

Apart == IF LocalStamp > RemoteStamp THEN LocalStamp - RemoteStamp
         ELSE RemoteStamp - LocalStamp

\* C17: detectConflict returns a Conflict exactly when the two timestamps are
\* more than 1000 ms apart, and the Conflict carries the two records and their
\* timestamps; at or below the threshold there is no Conflict and the remote
\* record is the one that replaces the local record.
C17_ConflictIffApart ==
  cr.stage \in {"resolve", "put"} =>
    /\ (cr.conflict # <<>>) <=> (Apart > 1000)
    /\ cr.conflict # <<>> =>
         /\ cr.conflict[1].local = cr.local /\ cr.conflict[1].remote = cr.remote
         /\ cr.conflict[1].localTimestamp = LocalStamp
         /\ cr.conflict[1].remoteTimestamp = RemoteStamp
    /\ (cr.conflict = <<>>) => (cr.stage = "put" /\ cr.toPut = <<cr.remote>>)

\* timestamps exactly 1000 ms apart: no Conflict, the remote record is put
C17_AtThreshold ==
  /\ cr.stage = "put" /\ Apart = 1000
  /\ cr.conflict = <<>> /\ cr.toPut = <<cr.remote>>

\* the record with the larger timestamp, the local one when they are equal
Newer == IF RemoteStamp > LocalStamp THEN cr.remote ELSE cr.local

\* C18: resolve returns the record of the larger timestamp under
\* last-write-wins, the local record under local-wins, the remote record under
\* remote-wins, what the function returns when the strategy is a function, and
\* falls back to last-write-wins for a strategy it does not know.
C18_Strategies ==
  (cr.stage = "put" /\ cr.conflict # <<>>) =>
    /\ cr.strategy = "last-write-wins" => cr.toPut = <<Newer>>
    /\ cr.strategy = "local-wins" => cr.toPut = <<cr.local>>
    /\ cr.strategy = "remote-wins" => cr.toPut = <<cr.remote>>
    /\ cr.strategy = "function" => cr.toPut = <<customResolver(cr.conflict[1])>>
    /\ cr.strategy \notin {"last-write-wins", "local-wins", "remote-wins", "function"}
         => cr.toPut = <<Newer>>

\* a strategy that resolve does not know, the remote record newer: it wins
C18_UnknownFallsBack ==
  /\ cr.stage = "put" /\ cr.conflict # <<>>
  /\ cr.strategy = "newest"
  /\ RemoteStamp > LocalStamp
  /\ cr.toPut = <<cr.remote>>

\* ------------------------------------------------------- failing calls
\* the step leaves the tables and the change log as they are
NoTrace ==
  /\ store' = store /\ upd' = upd
  /\ LogView' = LogView /\ changeQueue' = changeQueue /\ nMut' = nMut

\* C19: failed mutations leave no trace.  add with a key that is in the table
\* throws the duplicate-key error of the store, update with a key that is not
\* in the table throws the not-found error, and a step in which a call throws
\* changes neither the records of the tables nor the change log.
C19_FailedCallsLeaveNoTrace ==
  /\ [][\A t \in Tables : \A k \in KeysIn(t) :
          ((Add(t, k) \/ AddFails(t, k)) /\ store[t][k] # Absent)
            => (thrown' = Append(thrown, "ConstraintError") /\ NoTrace)]_vars
  /\ [][\A t \in Tables : \A k \in KeysIn(t) :
          ((UpdateGet(t, k) \/ UpdateFails(t, k)) /\ store[t][k] = Absent)
            => (thrown' = Append(thrown, "NotFound") /\ NoTrace)]_vars
  /\ [][thrown' # thrown => NoTrace]_vars

\* one add succeeded; a second add with its key and an update of a missing
\* key have thrown; the log holds the one record of the first add
C19_BothErrorsThrown ==
  /\ thrown = <<"ConstraintError", "NotFound">>
  /\ nMut = 1 /\ Len(LogView) = 1 /\ LogView[1].operation = "create"

\* ------------------------------------------------------ Table.update
\* the record that the update in progress has read
Updating == [t \in Tables |-> {k \in Keys : upd = <<[table |-> t, key |-> k]>>}]

\* C20 (as stated): update(key, changes) is atomic.  Between its read of the
\* existing record and its write of the merged record no other operation
\* changes that record, and its write does not bring back a record that a
\* delete has removed.
C20_UpdateAtomic ==
  /\ [][\A t \in Tables : \A k \in Updating[t] :
          (store'[t][k] # store[t][k]) => upd' = <<>>]_vars
  /\ [][\A t \in Tables : \A k \in Updating[t] :
          (upd' = <<>>) => store[t][k] # Absent]_vars

\* ---------------------------------------------------------------- C21
RECURSIVE absAllFrom(_, _)
\* the records of the abstract map of a table, in key order
absAllFrom(t, k) ==
  IF k \notin Keys THEN <<>>
  ELSE (IF abs[t][k] = Absent THEN <<>> ELSE <<[id |-> k, v |-> abs[t][k]]>>)
         \o absAllFrom(t, k + 1)

\* C21: after any sequence of add, update and delete calls made one after
\* another, getAll() of a table returns the records of the key-to-record map
\* that replaying the calls gives, a failed add or update contributing nothing.
C21_GetAllIsReplay ==
  upd = <<>> => \A t \in Tables : getAll(t) = absAllFrom(t, 1)

\* an add and an update have failed, a record was deleted and another is there
C21_AfterFailuresAndDelete ==
  /\ upd = <<>>
  /\ thrown = <<"ConstraintError", "NotFound">>
  /\ \E i \in DOMAIN changeQueue : changeQueue[i].operation = "delete"
  /\ \E i \in DOMAIN changeQueue : changeQueue[i].operation = "update"
  /\ getAll("users") # <<>>

\* ---------------------------------------------------------------- C22
\* the calls of the callback are all in the tables
AllPersisted ==
  \A i \in DOMAIN txn.body :
    LET w == txn.body[i] IN
    /\ store[w.table][w.key] # Absent
    /\ store[w.table][w.key] # txn.before[w.table][w.key]

\* C22: the mutations that the callback of Database.transaction makes are
\* atomic: when the promise of transaction() rejects, the tables are as the
\* call found them, and when it resolves, all the mutations are in the tables.
C22_TransactionAtomic ==
  /\ (txn.stage = "called" /\ txn.settled = "rejected") => store = txn.before
  /\ (txn.stage = "called" /\ txn.settled = "resolved") => AllPersisted

\* the promise resolved after both runs of the callback returned
C22_Resolved ==
  txn.stage = "called" /\ txn.settled = "resolved" /\ txn.run = <<"returned", "returned">>

\* ---------------------------------------------------------------- C23
\* the ids of the records of the change log, written or queued to be
LogIds(log) == {log[i].id : i \in DOMAIN log}

\* C23: clearSyncedChanges removes exactly the records with synced = true,
\* also while mutations are being recorded, and no operation removes a record
\* that is unsynced.
C23_OnlySyncedRemoved ==
  [][/\ \A i \in DOMAIN LogView : ~LogView[i].synced => LogView[i].id \in LogIds(LogView')
     /\ (ClearSyncedChanges /\ hasChanges) =>
          /\ \A i \in DOMAIN changes : changes[i].synced <=> changes[i].id \notin LogIds(changes')
          /\ \A i \in DOMAIN changes' : ~changes'[i].synced
          /\ pendingLog' = pendingLog
    ]_vars

\* clearSyncedChanges removed a record while another, unsynced, was in the log
\* and a third was queued to be written
C23_ClearedBesideUnsynced ==
  /\ trk.stage = "done" /\ trk.call = "clearSyncedChanges" /\ trk.removed > 0
  /\ changes # <<>>
  /\ pendingLog # <<>>

\* ---------------------------------------------------------------- C24
\* C24: every operation of the ChangeTracker raises the upgrade-required
\* error against a database without the _changes store; none returns.
C24_AllThrowWithoutStore ==
  (trk.stage = "done" /\ ~trk.hasStore) => trk.answer = "thrown"

\* ---------------------------------------------------------------- C25
\* C25: a tick of auto-sync while a sync operation is in flight starts no
\* full(), makes no remote call and schedules no run for later: it leaves the
\* engine as it is; a tick while the engine is idle starts one full(), which
\* is then the one body in flight.
C25_TickSkipsOrStartsOne ==
  [][AutoSyncTick =>
       IF isSyncing
         THEN /\ UNCHANGED syncVars
              /\ UNCHANGED <<lastPush, pushAfter, lastPushAll, meta>>
              /\ UNCHANGED restVars
              /\ UNCHANGED tableVars
         ELSE /\ fullpc = "idle" /\ fullpc' = "pulling"
              /\ running = 0 /\ running' = 1
              /\ isSyncing' /\ owner' = "full" /\ op' = "pull"
              /\ calls' = calls
    ]_vars

\* a tick was skipped during a push() of the application, and a later tick
\* started a full(), which is pushing now
C25_SkippedThenStarted ==
  /\ auto.skipped
  /\ owner = "full" /\ fullpc = "pushing"
  /\ lastPush = "running"

\* ---------------------------------------------------------------- C26
\* C26: when the handler of a realtime INSERT or UPDATE event for a key has
\* run, the local record of that key is the record of the event, and when the
\* handler of a DELETE event has run, the key has no local record, whatever
\* the table, the change log and an update of the application in progress
\* were before.
C26_EventApplied ==
  [][\A t \in Tables : \A payload \in RealtimePayloads(t) :
       RealtimeEvent(t, payload) =>
         IF payload.eventType = "DELETE"
           THEN store'[t][payload.old.id] = Absent
           ELSE store'[t][payload.new.id] = payload.new.v
    ]_vars

\* an UPDATE event has replaced a record that the application wrote, whose
\* change record is unsynced, while an update of the application is between
\* its get and its put
C26_EventOverLocalWrite ==
  /\ store["users"][1] = RemoteVal
  /\ Len(changeQueue) = 2
  /\ changeQueue[1].key = 1 /\ changeQueue[1].table = "users"
  /\ changeQueue[1].data # <<>> /\ changeQueue[1].data[1].v # RemoteVal
  /\ changeQueue[2].data = <<[id |-> 1, v |-> RemoteVal]>>
  /\ upd # <<>>

\* ---------------------------------------------------------------- C27
\* C27: subscribe() of a LiveQuery calls the callback at once, with the result
\* of the query over the table as it is at that moment.
C27_FirstValueIsCurrent ==
  [][\A callback \in Callbacks :
       LiveSubscribe(callback) =>
         live'.subs[Len(live'.subs)].first = getAll(QueriedTable)
    ]_vars

\* ---------------------------------------------------------------- C28
\* the callbacks of the subscriptions whose unsubscribe function was not called
OpenCallbacks == {live.subs[i].callback : i \in {j \in DOMAIN live.subs : live.subs[j].open}}

\* C28: once the unsubscribe function of a subscription has returned, its
\* callback is not called for it any more, not even by a refresh that was in
\* flight, and the other subscriptions go on getting the results: a refresh
\* that arrives calls exactly the callbacks of the subscriptions that are not
\* unsubscribed.
C28_NextCallsTheOpenOnes ==
  [][LiveNext => live'.invoked = OpenCallbacks]_vars

\* the first half alone: no callback is called that no open subscription has
C28_NoCallAfterUnsubscribe ==
  [][LiveNext => live'.invoked \subseteq OpenCallbacks]_vars

\* the same with every subscription made with a callback of its own
C28_DistinctCallbacks ==
  [][(LiveNext /\ \A i, j \in DOMAIN live.subs :
                    live.subs[i].callback = live.subs[j].callback => i = j)
       => live'.invoked = OpenCallbacks]_vars

\* ---------------------------------------------------------------- C29
\* C29: the change detection is active exactly while a subscription is not
\* unsubscribed, with one interval, also when an unsubscribe function is
\* called twice and when a callback is subscribed twice.
C29_ActiveIffSubscribed ==
  live.stage = "made" =>
    /\ live.intervals > 0 <=> OpenCallbacks # {}
    /\ live.intervals <= 1
    /\ live.timer <=> live.intervals = 1

\* ---------------------------------------------------------------- C30
\* a record satisfies a where-clause
Satisfies(item, clause) ==
  LET x == IF clause.field = "id" THEN item.id ELSE item.v IN
  CASE clause.operator = "="  -> x = clause.value[1]
    [] clause.operator = ">"  -> x > clause.value[1]
    [] clause.operator = ">=" -> x >= clause.value[1]
    [] clause.operator = "<"  -> x < clause.value[1]
    [] clause.operator = "<=" -> x <= clause.value[1]
    [] clause.operator = "!=" -> x # clause.value[1]
    [] clause.operator = "between" -> clause.value[1] <= x /\ x <= clause.value[2]

\* the records of the source that satisfy every clause and the predicate
Matching(source, q) ==
  SelectSeq(source, LAMBDA item :
    /\ \A i \in DOMAIN q.whereClauses : Satisfies(item, q.whereClauses[i])
    /\ q.filterPredicate = "oddId" => item.id % 2 = 1)

\* a comes before b in the order of the query (ties keep the order of the store)
Before(a, b, q) ==
  LET x == IF q.sortField = "id" THEN a.id ELSE a.v
      y == IF q.sortField = "id" THEN b.id ELSE b.v IN
  IF x = y THEN a.id < b.id
  ELSE IF q.sortDirection = "asc" THEN x < y ELSE x > y

\* the records of seq in the order of the query: record number i is the one
\* that i - 1 of the others come before
Sorted(seq, q) ==
  IF q.sortField = "none" THEN seq
  ELSE [i \in DOMAIN seq |->
          CHOOSE a \in {seq[j] : j \in DOMAIN seq} :
            Cardinality({j \in DOMAIN seq : Before(seq[j], a, q)}) = i - 1]

\* what the pipeline is to return: sort the matching records, drop `offset`
\* of them, keep at most `limit`
Expected(source, q) ==
  LET sorted == Sorted(Matching(source, q), q)
      rest == [i \in 1..(IF Len(sorted) > q.offsetCount THEN Len(sorted) - q.offsetCount ELSE 0)
                 |-> sorted[i + q.offsetCount]] IN
  IF q.limitCount = NoLimit \/ q.limitCount >= Len(rest) THEN rest
  ELSE [i \in 1..q.limitCount |-> rest[i]]

\* the three terminal calls answer by the pipeline
PipelineAnswers ==
  /\ ToArray => qry'.result = Expected(qry.source, qry.query)
  /\ Count => qry'.result = <<Len(Expected(qry.source, qry.query))>>
  /\ First =>
       LET one == Expected(qry.source, [qry.query EXCEPT !.limitCount = 1]) IN
       qry'.result = IF one = <<>> THEN <<>> ELSE <<one[1]>>

\* C30: toArray() returns the records that satisfy all where-clauses and the
\* predicate, sorted, without the first `offset` of them and at most `limit`
\* of them; count() is the length of that, first() its head under limit 1.
C30_Pipeline ==
  [][PipelineAnswers]_vars

\* the same for the queries without a `between` clause
C30_PipelineButBetween ==
  [][(\A i \in DOMAIN qry.query.whereClauses :
        qry.query.whereClauses[i].operator # "between") => PipelineAnswers]_vars

\* ---------------------------------------------------------------- C31
RECURSIVE RemoteAfter(_, _, _, _)
\* the remote record of key k of table t after the remote calls cs, made in
\* that order, when it was v before them: an upsert puts each of its records
\* under its id, a delete removes its keys
RemoteAfter(cs, t, k, v) ==
  IF cs = <<>> THEN v
  ELSE LET c == Head(cs)
           sent == {i \in DOMAIN c.records : c.records[i].id = k}
           after == IF c.table # t THEN v
                    ELSE IF c.kind = "upsert" /\ sent # {}
                           THEN c.records[CHOOSE i \in sent : TRUE].v
                    ELSE IF c.kind = "delete" /\ \E i \in DOMAIN c.keys : c.keys[i] = k
                           THEN Absent
                    ELSE v
       IN RemoteAfter(Tail(cs), t, k, after)

\* the keys of the entries of the batch for table t
BatchKeys(t) == {BatchOf(t)[i].key : i \in DOMAIN BatchOf(t)} \cap Keys

\* C31: when push() ends without error and no mutation was recorded while it
\* ran, the remote record of every key of its batch is the local one: the
\* local value where the table has a record, none where it has none, whatever
\* the remote record was before and whatever the order of the entries.
C31_RemoteAgrees ==
  [][(PushMark /\ Tail(todo) = <<>> /\ lastPush = "running") =>
       \A t \in Tables : \A k \in BatchKeys(t) : \A before \in {Absent, RemoteVal} :
         RemoteAfter(calls, t, k, before) = store[t][k]
    ]_vars

\* the same for the batches that have no key both deleted and written
C31_ButDeletedAndWritten ==
  [][(/\ PushMark /\ Tail(todo) = <<>> /\ lastPush = "running"
      /\ \A i, j \in DOMAIN batch :
           (batch[i].table = batch[j].table /\ batch[i].key = batch[j].key)
             => (batch[i].operation = "delete" <=> batch[j].operation = "delete")
      /\ \A i \in DOMAIN batch : batch[i].key # NoKey) =>
       \A t \in Tables : \A k \in BatchKeys(t) : \A before \in {Absent, RemoteVal} :
         RemoteAfter(calls, t, k, before) = store[t][k]
    ]_vars

\* ---------------------------------------------------------------- C32
\* The ChangeRecord c was recorded after the scan was taken: every write puts
\* a value that no earlier write put (the number of the write, which is the id
\* of its ChangeRecord), so a scan that holds for the key of c a value older
\* than c was taken before the mutation that c records.
AfterScan(c) == \E i \in DOMAIN scan : scan[i].id = c.key /\ scan[i].v < c.id

\* C32: pushAll() marks synced only ChangeRecords whose effect is in the scan
\* that it upserted; the record of a mutation made while pushAll() waits for
\* the remote upsert, after the scan, stays unsynced.
C32_MarksOnlyWhatItSent ==
  [][PushAllMark =>
       \A i \in DOMAIN changes : changes[i].id \in Flipped => ~AfterScan(changes[i])
    ]_vars

\* ---- C33
\* C33: pushAll() loses no local delete: when it marks synced a pending
\* 'delete' ChangeRecord of a key that is absent locally, the key is absent
\* remotely after the remote calls that pushAll() made, whatever the remote held
\* before.
C33_DeleteReachesRemote ==
  [][PushAllMark =>
       \A i \in DOMAIN changes :
         ( /\ changes[i].id \in Flipped
           /\ changes[i].operation = "delete"
           /\ changes[i].key \in Keys
           /\ store[changes[i].table][changes[i].key] = Absent )
         => \A before \in {Absent, RemoteVal} :
              RemoteAfter(calls, changes[i].table, changes[i].key, before) = Absent
    ]_vars

\* ---- C34
\* the data of the create / update ChangeRecord c went out in a successful
\* upsert: a record of an upsert of c's table has the id of the data and its
\* value, or the value that a later entry of the batch put under that id
WentOut(c) ==
  \E n \in DOMAIN calls :
    /\ calls[n].kind = "upsert" /\ calls[n].table = c.table /\ calls[n].ok
    /\ \E i \in DOMAIN calls[n].records :
         /\ calls[n].records[i].id = c.data[1].id
         /\ calls[n].records[i].v >= c.data[1].v

\* C34: every create / update ChangeRecord that push() marks synced had its
\* data in a successful remote upsert; a change whose data has no id is not
\* marked synced without having been sent.
C34_MarkedWasSent ==
  [][PushMark =>
       \A i \in DOMAIN changes :
         (changes[i].id \in Flipped /\ changes[i].operation # "delete")
           => WentOut(changes[i])
    ]_vars

\* ---------------------------------------------------------------- C35
\* a sync call ended in this step: the running body was left, or the call
\* threw before its first await
Ended == (op # "none" /\ op' = "none") \/ SyncNotOpen

\* C35: the guard is always released.  isSyncing is set only while a guarded
\* body is in flight; and when push, pull or pushAll ends (normally, by an
\* early return, or throwing: a remote failure, a database that is not open,
\* a missing change log) isSyncing is false afterwards.
C35_GuardReleased ==
  /\ [](isSyncing => (op # "none" /\ running = 1))
  /\ [][Ended => ~isSyncing']_vars

\* C35 witness: a push() has thrown (the remote failed, or the change log is
\* missing, or the database is not open) and the guard is free
C35_ThrownAndFree == lastPush = "error" /\ ~isSyncing /\ op = "none"

\* ---------------------------------------------------------------- C37
\* C37: applying an inbound realtime event adds no unsynced ChangeRecord: the
\* pending changes that a push() started afterwards reads, and the change
\* queue, are what they were before the event.
C37_EventRecordsNothing ==
  [][(\E t \in Tables : \E payload \in RealtimePayloads(t) : RealtimeEvent(t, payload)) =>
       /\ changeQueue' = changeQueue
       /\ SelectSeq(LogView', LAMBDA c : ~c.synced) = SelectSeq(LogView, LAMBDA c : ~c.synced)
    ]_vars

\* ---------------------------------------------------------------- C38
\* the invocations of the callback that the call of transaction() has made
Invocations == {r \in {1, 2} : txn.run[r] # "waiting"}

\* C38: Database.transaction invokes the callback exactly once per call, and
\* the promise settles with the outcome of that invocation: resolved when it
\* has returned, rejected when it has thrown.
C38_CallbackOnce ==
  txn.stage = "called" =>
    /\ Cardinality(Invocations) = 1
    /\ \A r \in Invocations :
         /\ txn.run[r] = "returned" => txn.settled = "resolved"
         /\ txn.run[r] = "thrown" => txn.settled = "rejected"

\* ---------------------------------------------------------------- C40
\* the records of seq whose field is within the bounds of the clause
Within(seq, clause) ==
  SelectSeq(seq, LAMBDA item :
    /\ clause.value[1] <= fieldOf(item, clause.field)
    /\ fieldOf(item, clause.field) <= clause.value[2])

\* C40: where(field).between(lower, upper) restricts toArray() to exactly the
\* records with lower <= field <= upper: for a query made of that one clause,
\* toArray() answers with those records of the store, in the order of the store.
C40_BetweenRestricts ==
  [][( /\ ToArray
       /\ Len(qry.query.whereClauses) = 1
       /\ qry.query.whereClauses[1].operator = "between"
       /\ qry.query.filterPredicate = "none"
       /\ qry.query.sortField = "none"
       /\ qry.query.limitCount = NoLimit
       /\ qry.query.offsetCount = 0 )
     => qry'.result = Within(qry.source, qry.query.whereClauses[1])]_vars

\* ---------------------------------------------------------------- C36
\* the version of the record of table t that the backend holds has not been
\* returned by a select of pull()
NotReturned(t) == rem.at[t] > rem.got[t]

\* C36: pull() misses no remote change for good.  A remote record modified at
\* any time, also while a pull() is between its select and its
\* setSyncMetadata, stays within the filter of the selects to come until one
\* has returned it: its updated_at is not before the stored lastSyncTimestamp.
C36_NothingMissed ==
  \A t \in Tables :
    NotReturned(t) =>
      \/ OrZero(meta[t].lastSyncTimestamp) = 0
      \/ rem.at[t] >= meta[t].lastSyncTimestamp

\* ---------------------------------------------------------------- C39
\* C39: Database.open() is single-flight and idempotent.  Every call of open()
\* that has resolved got the opened database; one chain of openDatabase runs at
\* a time, under the openingPromise that the calls made meanwhile share; open()
\* on an open database makes no request; and once an attempt has ended there
\* is no openingPromise left, and after a failed one no db either, so that the
\* next open() tries again.
C39_SingleFlightOpen ==
  /\ [](\A i \in DOMAIN odb.callers : odb.callers[i] # "closed")
  /\ [](odb.pc # "none" <=> odb.openingPromise)
  /\ []((odb.pc = "none" /\ odb.db # "open") => odb.db = "null")
  /\ [][(Open /\ odb.db = "open") => odb'.requests = odb.requests]_vars

====
